---- MODULE Spec2Model ----
(***************************************************************************)
(* School management system: the in-memory object graph (students,         *)
(* instructors, courses), the JSON snapshot codec and reconciler           *)
(* (DataManager), the SQLite store (db_manager and its variants) and the   *)
(* Tk front end's actions.                                                 *)
(*                                                                         *)
(* Python objects have identity: an object is a reference (a natural       *)
(* number) into a heap, one heap per class; `x in list` and `x is y`       *)
(* compare references (no class defines __eq__).  Reference 0 is None.     *)
(***************************************************************************)
EXTENDS Integers, Sequences, FiniteSets, TLC

VARIABLES doc, graph, doc2, graph2, phase   \* snapshot codec
VARIABLES db, variant, last                 \* the store, the module that serves it, the last call
VARIABLES mem                               \* the Tk front end's students/instructors/courses
VARIABLES conns                             \* the connections left open: list generators suspended at a yield
VARIABLES backup                            \* the backup copy being written, if any

loadVars == <<doc, graph, doc2, graph2, phase>>
storeVars == <<db, variant, last, conns, backup>>
vars == <<doc, graph, doc2, graph2, phase, db, variant, last, mem, conns, backup>>

(***************************************************************************)
(* Bounds and value domains                                                *)
(***************************************************************************)
MaxRecords == 3     \* records in an enumerated snapshot document
MaxRefs == 2        \* references written into the records of such a document
MaxRows == 5         \* rows in the store, all tables together
MaxHeap == 2        \* objects of one class alive in the front end, stale ones included

StudentIds == {"s1", "s2"}
InstructorIds == {"i1", "i2"}
CourseIds == {"c1", "c2"}
Names == {"a", "b"}
EditNames == {"b"}   \* the names typed when a row is edited
Ages == {20}
Emails == {"x@y.z"}

\* the name typed for an entity when it is added (for students the name
\* order differs from the ID order)
NameOf(id) == IF id = "s2" THEN "a" ELSE "b"

None == "None"      \* JSON null / Python None in an ID-valued field
NoRef == 0          \* Python None in an object-valued field
KeyError == -1      \* a lookup that raised instead of returning

(***************************************************************************)
(* Sequence helpers (Python list semantics)                                *)
(***************************************************************************)
Range(s) == {s[k] : k \in 1..Len(s)}

Contains(s, x) == \E k \in 1..Len(s) : s[k] = x

Count(s, x) == Cardinality({k \in 1..Len(s) : s[k] = x})

MaxOf(S) == CHOOSE m \in S : \A n \in S : n <= m

MinOf(S) == CHOOSE m \in S : \A n \in S : m <= n

\* `if x not in lst: lst.append(x)`
AppendIfAbsent(s, x) == IF Contains(s, x) THEN s ELSE Append(s, x)

\* list.remove(x): removes the first occurrence (callers test `x in lst` first)
RemoveFirst(s, x) ==
  IF ~Contains(s, x) THEN s
  ELSE LET p == MinOf({k \in 1..Len(s) : s[k] = x})
       IN [k \in 1..(Len(s) - 1) |-> IF k < p THEN s[k] ELSE s[k + 1]]

SeqsUpTo(S, n) == UNION {[1..k -> S] : k \in 0..n}

(***************************************************************************)
(* Entity model: constructors (from_dict builds scalar fields only)        *)
(***************************************************************************)
Student(name, age, email, student_id) ==
  [name |-> name, age |-> age, email |-> email, student_id |-> student_id,
   registered_courses |-> <<>>]

Instructor(name, age, email, instructor_id) ==
  [name |-> name, age |-> age, email |-> email, instructor_id |-> instructor_id,
   assigned_courses |-> <<>>]

Course(course_id, course_name, instructor) ==
  [course_id |-> course_id, course_name |-> course_name,
   instructor |-> instructor, enrolled_students |-> <<>>]

\* variant: a factory that copies the record's registered_courses
StudentFromDict_wired(d) ==
  [Student(d.name, d.age, d.email, d.student_id)
     EXCEPT !.registered_courses = d.registered_courses]

StudentFromDict(d) == Student(d.name, d.age, d.email, d.student_id)

InstructorFromDict(d) == Instructor(d.name, d.age, d.email, d.instructor_id)

CourseFromDict(d) == Course(d.course_id, d.course_name, NoRef)

(***************************************************************************)
(* Graph: three heaps (reference -> object) and the three collections      *)
(* (lists of references).  `raised` records an exception that left the     *)
(* operation that built the graph.                                         *)
(***************************************************************************)
\* no backup has been started
NoBackup == [op |-> "none"]

EmptyGraph ==
  [raised |-> FALSE,
   stu |-> <<>>, ins |-> <<>>, crs |-> <<>>,
   students |-> <<>>, instructors |-> <<>>, courses |-> <<>>]

\* {obj.id: obj for obj in objs}.get(id): the last object with that ID, or None
LastWithId(ids, refs, id) ==
  LET ks == {k \in 1..Len(refs) : ids[refs[k]] = id}
  IN IF ks = {} THEN NoRef ELSE refs[MaxOf(ks)]

stu_by_id(G, id) ==
  LastWithId([r \in DOMAIN G.stu |-> G.stu[r].student_id], G.students, id)

inst_by_id(G, id) ==
  LastWithId([r \in DOMAIN G.ins |-> G.ins[r].instructor_id], G.instructors, id)

\* variant: indexing crs_by_id[id] instead of crs_by_id.get(id)
crs_by_id_strict(G, id) ==
  LET r == LastWithId([x \in DOMAIN G.crs |-> G.crs[x].course_id], G.courses, id)
  IN IF r = NoRef THEN KeyError ELSE r

crs_by_id(G, id) ==
  LastWithId([r \in DOMAIN G.crs |-> G.crs[r].course_id], G.courses, id)

Raise(G) == [G EXCEPT !.raised = TRUE]

(***************************************************************************)
(* DataManager.load_obj_from_json                                          *)
(***************************************************************************)
\* step 1: recreate the objects, relationship fields empty
LoadObjects(D) ==
  [raised |-> FALSE,
   stu |-> [k \in 1..Len(D.students) |-> StudentFromDict(D.students[k])],
   ins |-> [k \in 1..Len(D.instructors) |-> InstructorFromDict(D.instructors[k])],
   crs |-> [k \in 1..Len(D.courses) |-> CourseFromDict(D.courses[k])],
   students |-> [k \in 1..Len(D.students) |-> k],
   instructors |-> [k \in 1..Len(D.instructors) |-> k],
   courses |-> [k \in 1..Len(D.courses) |-> k]]

\* step 3, "Link instructor" of one course record
LinkCourseInstructor(G, c, inst_id) ==
  IF inst_id = None THEN G
  ELSE LET inst == inst_by_id(G, inst_id)
       IN IF inst = KeyError THEN Raise(G)
          ELSE IF inst = NoRef THEN G
          ELSE [G EXCEPT !.crs[c].instructor = inst,
                         !.ins[inst].assigned_courses = AppendIfAbsent(@, c)]

\* step 3, body of "Link students (course roster)" for one student ID
LinkRosterEntry(G, c, sid) ==
  LET s == stu_by_id(G, sid)
  IN IF s = KeyError THEN Raise(G)
     ELSE IF s = NoRef THEN G
     ELSE [G EXCEPT !.crs[c].enrolled_students = AppendIfAbsent(@, s),
                    !.stu[s].registered_courses = AppendIfAbsent(@, c)]

RECURSIVE LinkRoster(_, _, _, _)
LinkRoster(G, c, sids, k) ==
  IF k > Len(sids) \/ G.raised THEN G
  ELSE LinkRoster(LinkRosterEntry(G, c, sids[k]), c, sids, k + 1)

\* step 3: relationships from the course records
RECURSIVE CoursePass(_, _, _)
CoursePass(G, cds, k) ==
  IF k > Len(cds) \/ G.raised THEN G
  ELSE LET cd == cds[k]
           c == crs_by_id(G, cd.course_id)
           G1 == LinkCourseInstructor(G, c, cd.instructor)
           G2 == IF G1.raised THEN G1
                 ELSE LinkRoster(G1, c, cd.enrolled_students, 1)
       IN IF c = NoRef THEN CoursePass(G, cds, k + 1)
          ELSE CoursePass(G2, cds, k + 1)

\* variant: the student-side pass appends to registered_courses only
LinkRegisteredEntry_one_sided(G, s, cid) ==
  LET c == crs_by_id(G, cid)
  IN IF c = KeyError THEN Raise(G)
     ELSE IF c = NoRef THEN G
     ELSE [G EXCEPT !.stu[s].registered_courses = AppendIfAbsent(@, c)]

\* step 4, body for one course ID of a student record
LinkRegisteredEntry(G, s, cid) ==
  LET c == crs_by_id(G, cid)
  IN IF c = KeyError THEN Raise(G)
     ELSE IF c = NoRef THEN G
     ELSE [G EXCEPT !.stu[s].registered_courses = AppendIfAbsent(@, c),
                    !.crs[c].enrolled_students = AppendIfAbsent(@, s)]

RECURSIVE LinkRegistered(_, _, _, _)
LinkRegistered(G, s, cids, k) ==
  IF k > Len(cids) \/ G.raised THEN G
  ELSE LinkRegistered(LinkRegisteredEntry(G, s, cids[k]), s, cids, k + 1)

\* step 4: cross-check from the student side
RECURSIVE StudentPass(_, _, _)
StudentPass(G, sds, k) ==
  IF k > Len(sds) \/ G.raised THEN G
  ELSE LET s == stu_by_id(G, sds[k].student_id)
       IN IF s = NoRef THEN StudentPass(G, sds, k + 1)
          ELSE StudentPass(LinkRegistered(G, s, sds[k].registered_courses, 1),
                           sds, k + 1)

\* variant: the instructor-side pass overwrites course.instructor
LinkAssignedEntry_overwrite(G, inst, cid) ==
  LET c == crs_by_id(G, cid)
  IN IF c = KeyError THEN Raise(G)
     ELSE IF c = NoRef THEN G
     ELSE [G EXCEPT !.ins[inst].assigned_courses = AppendIfAbsent(@, c),
                    !.crs[c].instructor = inst]

\* step 5, body for one course ID of an instructor record
LinkAssignedEntry(G, inst, cid) ==
  LET c == crs_by_id(G, cid)
  IN IF c = KeyError THEN Raise(G)
     ELSE IF c = NoRef THEN G
     ELSE [G EXCEPT !.ins[inst].assigned_courses = AppendIfAbsent(@, c),
                    !.crs[c].instructor =
                       IF @ = NoRef THEN inst ELSE @]

RECURSIVE LinkAssigned(_, _, _, _)
LinkAssigned(G, inst, cids, k) ==
  IF k > Len(cids) \/ G.raised THEN G
  ELSE LinkAssigned(LinkAssignedEntry(G, inst, cids[k]), inst, cids, k + 1)

\* step 5: cross-check from the instructor side
RECURSIVE InstructorPass(_, _, _)
InstructorPass(G, ids, k) ==
  IF k > Len(ids) \/ G.raised THEN G
  ELSE LET inst == inst_by_id(G, ids[k].instructor_id)
       IN IF inst = NoRef THEN InstructorPass(G, ids, k + 1)
          ELSE InstructorPass(LinkAssigned(G, inst, ids[k].assigned_courses, 1),
                              ids, k + 1)

\* the references of a list whose ID no earlier reference of the list has
FirstOfEachId(ids, refs) ==
  SelectSeq(refs, LAMBDA r : \A k \in 1..Len(refs) :
                               (ids[refs[k]] = ids[r]) => refs[k] >= r)

\* variant: the returned lists keep the first object built for each ID,
\* while the relationships were made with the objects of the ID indexes
load_obj_from_json_first_of_id(D) ==
  LET G == InstructorPass(
             StudentPass(
               CoursePass(LoadObjects(D), D.courses, 1),
               D.students, 1),
             D.instructors, 1)
  IN [G EXCEPT
        !.students = FirstOfEachId([r \in DOMAIN G.stu |-> G.stu[r].student_id], @),
        !.instructors = FirstOfEachId([r \in DOMAIN G.ins |-> G.ins[r].instructor_id], @),
        !.courses = FirstOfEachId([r \in DOMAIN G.crs |-> G.crs[r].course_id], @)]

load_obj_from_json(D) ==
  InstructorPass(
    StudentPass(
      CoursePass(LoadObjects(D), D.courses, 1),
      D.students, 1),
    D.instructors, 1)

(***************************************************************************)
(* create_dict_from_obj and DataManager.save_obj_into_json                 *)
(***************************************************************************)
StudentDict(G, s) ==
  [name |-> G.stu[s].name, age |-> G.stu[s].age, email |-> G.stu[s].email,
   student_id |-> G.stu[s].student_id,
   registered_courses |->
     [k \in 1..Len(G.stu[s].registered_courses) |->
        G.crs[G.stu[s].registered_courses[k]].course_id]]

InstructorDict(G, i) ==
  [name |-> G.ins[i].name, age |-> G.ins[i].age, email |-> G.ins[i].email,
   instructor_id |-> G.ins[i].instructor_id,
   assigned_courses |->
     [k \in 1..Len(G.ins[i].assigned_courses) |->
        G.crs[G.ins[i].assigned_courses[k]].course_id]]

\* variant: an encoder that writes no instructor for a course
CourseDict_without_instructor(G, c) ==
  [course_id |-> G.crs[c].course_id, course_name |-> G.crs[c].course_name,
   instructor |-> None,
   enrolled_students |->
     [k \in 1..Len(G.crs[c].enrolled_students) |->
        G.stu[G.crs[c].enrolled_students[k]].student_id]]

CourseDict(G, c) ==
  [course_id |-> G.crs[c].course_id, course_name |-> G.crs[c].course_name,
   instructor |-> IF G.crs[c].instructor # NoRef
                  THEN G.ins[G.crs[c].instructor].instructor_id ELSE None,
   enrolled_students |->
     [k \in 1..Len(G.crs[c].enrolled_students) |->
        G.stu[G.crs[c].enrolled_students[k]].student_id]]

save_obj_into_json(G) ==
  [students |-> [k \in 1..Len(G.students) |-> StudentDict(G, G.students[k])],
   instructors |-> [k \in 1..Len(G.instructors) |-> InstructorDict(G, G.instructors[k])],
   courses |-> [k \in 1..Len(G.courses) |-> CourseDict(G, G.courses[k])]]

(***************************************************************************)
(* Views of a graph: ID sets, scalar fields and edge sets (by ID)          *)
(***************************************************************************)
StudentRefs(G) == Range(G.students)
InstructorRefs(G) == Range(G.instructors)
CourseRefs(G) == Range(G.courses)

IdsOfStudents(G) == {G.stu[s].student_id : s \in StudentRefs(G)}
IdsOfInstructors(G) == {G.ins[i].instructor_id : i \in InstructorRefs(G)}
IdsOfCourses(G) == {G.crs[c].course_id : c \in CourseRefs(G)}

ScalarsOf(G) ==
  [students |-> {<<G.stu[s].student_id, G.stu[s].name, G.stu[s].age, G.stu[s].email>> :
                   s \in StudentRefs(G)},
   instructors |-> {<<G.ins[i].instructor_id, G.ins[i].name, G.ins[i].age, G.ins[i].email>> :
                   i \in InstructorRefs(G)},
   courses |-> {<<G.crs[c].course_id, G.crs[c].course_name>> : c \in CourseRefs(G)}]

\* the four relationship collections, as sets of ID pairs
EdgesOf(G) ==
  [registered_courses |->
     UNION {{<<G.stu[s].student_id, G.crs[c].course_id>> :
               c \in Range(G.stu[s].registered_courses)} : s \in StudentRefs(G)},
   enrolled_students |->
     UNION {{<<G.crs[c].course_id, G.stu[s].student_id>> :
               s \in Range(G.crs[c].enrolled_students)} : c \in CourseRefs(G)},
   assigned_courses |->
     UNION {{<<G.ins[i].instructor_id, G.crs[c].course_id>> :
               c \in Range(G.ins[i].assigned_courses)} : i \in InstructorRefs(G)},
   instructor |->
     {<<G.crs[c].course_id, G.ins[G.crs[c].instructor].instructor_id>> :
        c \in {x \in CourseRefs(G) : G.crs[x].instructor # NoRef}}]

(***************************************************************************)
(* Snapshot documents enumerated for the reconciler: up to two records of  *)
(* each kind (IDs may repeat), at most MaxRecords records, and at most     *)
(* MaxRefs references written into their relationship fields, to IDs that  *)
(* may or may not have a record.                                           *)
(***************************************************************************)
DocRecords(sids, iids, cids) ==
  [students |->
     [k \in 1..Len(sids) |->
        [name |-> "a", age |-> 20, email |-> "x@y.z", student_id |-> sids[k],
         registered_courses |-> <<>>]],
   instructors |->
     [k \in 1..Len(iids) |->
        [name |-> "a", age |-> 20, email |-> "x@y.z", instructor_id |-> iids[k],
         assigned_courses |-> <<>>]],
   courses |->
     [k \in 1..Len(cids) |->
        [course_id |-> cids[k], course_name |-> "a", instructor |-> None,
         enrolled_students |-> <<>>]]]

DocRefItems(ns, ni, nc) ==
  {[kind |-> "registered_courses", rec |-> k, target |-> t] : k \in 1..ns, t \in CourseIds}
  \cup {[kind |-> "assigned_courses", rec |-> k, target |-> t] : k \in 1..ni, t \in CourseIds}
  \cup {[kind |-> "enrolled_students", rec |-> k, target |-> t] : k \in 1..nc, t \in StudentIds}
  \cup {[kind |-> "instructor", rec |-> k, target |-> t] : k \in 1..nc, t \in InstructorIds}

DocWithRef(D, r) ==
  CASE r.kind = "registered_courses" ->
         [D EXCEPT !.students[r.rec].registered_courses = Append(@, r.target)]
    [] r.kind = "assigned_courses" ->
         [D EXCEPT !.instructors[r.rec].assigned_courses = Append(@, r.target)]
    [] r.kind = "enrolled_students" ->
         [D EXCEPT !.courses[r.rec].enrolled_students = Append(@, r.target)]
    [] r.kind = "instructor" ->
         [D EXCEPT !.courses[r.rec].instructor = r.target]

RECURSIVE DocWithRefs(_, _, _)
DocWithRefs(D, refs, k) ==
  IF k > Len(refs) THEN D ELSE DocWithRefs(DocWithRef(D, refs[k]), refs, k + 1)

(***************************************************************************)
(* Specification of the snapshot codec: a document is loaded, the graph    *)
(* saved, and the saved document loaded again.                             *)
(***************************************************************************)
NoDoc == [students |-> <<>>, instructors |-> <<>>, courses |-> <<>>]

\* no store is involved
NoStore ==
  /\ db = [students |-> <<>>, instructors |-> <<>>, courses |-> <<>>, enrollments |-> <<>>]
  /\ variant = "core"
  /\ last = [op |-> "none", raised |-> FALSE, affected |-> 0]
  /\ conns = <<>>
  /\ backup = NoBackup

InitLoad ==
  /\ \E ns \in 0..2, ni \in 0..2, nc \in 0..2 :
       /\ ns + ni + nc <= MaxRecords
       /\ \E sids \in [1..ns -> StudentIds],
             iids \in [1..ni -> InstructorIds],
             cids \in [1..nc -> CourseIds],
             refs \in SeqsUpTo(DocRefItems(ns, ni, nc), MaxRefs) :
            doc = DocWithRefs(DocRecords(sids, iids, cids), refs, 1)
  /\ graph = EmptyGraph
  /\ doc2 = NoDoc
  /\ graph2 = EmptyGraph
  /\ phase = "doc"
  /\ NoStore
  /\ mem = EmptyGraph

LoadJson ==
  /\ phase = "doc"
  /\ graph' = load_obj_from_json(doc)
  /\ phase' = "loaded"
  /\ UNCHANGED <<doc, doc2, graph2, storeVars, mem>>

SaveJson ==
  /\ phase = "loaded"
  /\ ~graph.raised
  /\ doc2' = save_obj_into_json(graph)
  /\ phase' = "saved"
  /\ UNCHANGED <<doc, graph, graph2, storeVars, mem>>

ReloadJson ==
  /\ phase = "saved"
  /\ graph2' = load_obj_from_json(doc2)
  /\ phase' = "reloaded"
  /\ UNCHANGED <<doc, graph, doc2, storeVars, mem>>

NextLoad == LoadJson \/ SaveJson \/ ReloadJson

SpecLoad == InitLoad /\ [][NextLoad]_vars


(***************************************************************************)
(* Relational store.  A table is the sequence of its rows in rowid         *)
(* (insertion) order.  Three modules serve a store:                        *)
(*   "core"   src/core/db_manager.py  PRAGMA foreign_keys = ON             *)
(*   "models" src/models/db.py        PRAGMA foreign_keys = ON             *)
(*   "root"   db_manager.py           connections without the pragma       *)
(* A statement returns [raised, db]; a call runs its statements in one     *)
(* transaction, committed only when none raised.                           *)
(***************************************************************************)
Variants == {"core", "models", "root"}

EmptyDb == [students |-> <<>>, instructors |-> <<>>, courses |-> <<>>, enrollments |-> <<>>]

RowCount(DB) ==
  Len(DB.students) + Len(DB.instructors) + Len(DB.courses) + Len(DB.enrollments)

\* SQLite enforces REFERENCES clauses (and runs their ON DELETE actions) only
\* on a connection that has executed PRAGMA foreign_keys = ON
ForeignKeys(v) == v \in {"core", "models"}

HasStudent(DB, sid) == \E k \in 1..Len(DB.students) : DB.students[k].sid = sid
HasInstructor(DB, iid) == \E k \in 1..Len(DB.instructors) : DB.instructors[k].iid = iid
HasCourse(DB, cid) == \E k \in 1..Len(DB.courses) : DB.courses[k].cid = cid
HasEnrollment(DB, cid, sid) ==
  \E k \in 1..Len(DB.enrollments) : DB.enrollments[k] = [cid |-> cid, sid |-> sid]

Done(DB) == [raised |-> FALSE, db |-> DB]
IntegrityError(DB) == [raised |-> TRUE, db |-> DB]

\* `with get_conn() as conn:` commit after the block, close (rollback) on an exception
Transaction(DB, R) == IF R.raised THEN IntegrityError(DB) ELSE R

\* variant: a students table declared without the primary key
InsertStudent_no_key(DB, sid, name, age, email) ==
  Done([DB EXCEPT !.students =
          Append(@, [sid |-> sid, name |-> name, age |-> age, email |-> email])])

\* INSERT INTO students (sid, name, age, email) VALUES (?,?,?,?)
InsertStudent(DB, sid, name, age, email) ==
  IF HasStudent(DB, sid) THEN IntegrityError(DB)
  ELSE Done([DB EXCEPT !.students =
               Append(@, [sid |-> sid, name |-> name, age |-> age, email |-> email])])

\* INSERT INTO instructors (iid, name, age, email) VALUES (?,?,?,?)
InsertInstructor(DB, iid, name, age, email) ==
  IF HasInstructor(DB, iid) THEN IntegrityError(DB)
  ELSE Done([DB EXCEPT !.instructors =
               Append(@, [iid |-> iid, name |-> name, age |-> age, email |-> email])])

\* INSERT INTO courses (cid, name, iid) VALUES (?,?,?)
InsertCourse(DB, v, cid, name, iid) ==
  IF HasCourse(DB, cid) THEN IntegrityError(DB)
  ELSE IF ForeignKeys(v) /\ iid # None /\ ~HasInstructor(DB, iid) THEN IntegrityError(DB)
  ELSE Done([DB EXCEPT !.courses = Append(@, [cid |-> cid, name |-> name, iid |-> iid])])

\* variant: a plain INSERT that a table without the primary key would accept
InsertEnrollment_no_key(DB, v, cid, sid) ==
  IF ForeignKeys(v) /\ (~HasCourse(DB, cid) \/ ~HasStudent(DB, sid)) THEN IntegrityError(DB)
  ELSE Done([DB EXCEPT !.enrollments = Append(@, [cid |-> cid, sid |-> sid])])

\* INSERT OR IGNORE INTO enrollments(cid, sid) VALUES (?,?)
\* (OR IGNORE skips a primary-key conflict; it does not cover foreign keys)
InsertEnrollment(DB, v, cid, sid) ==
  IF HasEnrollment(DB, cid, sid) THEN Done(DB)
  ELSE IF ForeignKeys(v) /\ (~HasCourse(DB, cid) \/ ~HasStudent(DB, sid))
  THEN IntegrityError(DB)
  ELSE Done([DB EXCEPT !.enrollments = Append(@, [cid |-> cid, sid |-> sid])])

\* UPDATE students SET name=?, age=?, email=? WHERE sid=?
UpdateStudent(DB, sid, name, age, email) ==
  Done([DB EXCEPT !.students =
          [k \in 1..Len(@) |->
             IF @[k].sid = sid
             THEN [sid |-> sid, name |-> name, age |-> age, email |-> email] ELSE @[k]]])

\* UPDATE instructors SET name=?, age=?, email=? WHERE iid=?
UpdateInstructor(DB, iid, name, age, email) ==
  Done([DB EXCEPT !.instructors =
          [k \in 1..Len(@) |->
             IF @[k].iid = iid
             THEN [iid |-> iid, name |-> name, age |-> age, email |-> email] ELSE @[k]]])

\* UPDATE courses SET name=? WHERE cid=?
UpdateCourseName(DB, cid, name) ==
  Done([DB EXCEPT !.courses =
          [k \in 1..Len(@) |-> IF @[k].cid = cid THEN [@[k] EXCEPT !.name = name] ELSE @[k]]])

\* UPDATE courses SET iid=? WHERE cid=?
UpdateCourseInstructor(DB, v, cid, iid) ==
  IF ForeignKeys(v) /\ HasCourse(DB, cid) /\ iid # None /\ ~HasInstructor(DB, iid)
  THEN IntegrityError(DB)
  ELSE Done([DB EXCEPT !.courses =
               [k \in 1..Len(@) |-> IF @[k].cid = cid THEN [@[k] EXCEPT !.iid = iid] ELSE @[k]]])

\* UPDATE courses SET iid=NULL WHERE iid=?
ClearCourseInstructor(DB, iid) ==
  Done([DB EXCEPT !.courses =
          [k \in 1..Len(@) |-> IF @[k].iid = iid THEN [@[k] EXCEPT !.iid = None] ELSE @[k]]])

\* DELETE FROM enrollments WHERE sid=?
DeleteEnrollmentsOfStudent(DB, sid) ==
  Done([DB EXCEPT !.enrollments = SelectSeq(@, LAMBDA e : e.sid # sid)])

\* DELETE FROM enrollments WHERE cid=?
DeleteEnrollmentsOfCourse(DB, cid) ==
  Done([DB EXCEPT !.enrollments = SelectSeq(@, LAMBDA e : e.cid # cid)])

\* variant: DELETE FROM enrollments WHERE sid=?  (the course not tested)
DeleteEnrollment_by_student(DB, sid, cid) ==
  Done([DB EXCEPT !.enrollments = SelectSeq(@, LAMBDA e : e.sid # sid)])

\* DELETE FROM enrollments WHERE sid=? AND cid=?
DeleteEnrollment(DB, sid, cid) ==
  Done([DB EXCEPT !.enrollments = SelectSeq(@, LAMBDA e : ~(e.sid = sid /\ e.cid = cid))])

\* DELETE FROM students WHERE sid=?   (enrollments.sid ... ON DELETE CASCADE)
DeleteStudentRow(DB, v, sid) ==
  Done([DB EXCEPT !.students = SelectSeq(@, LAMBDA r : r.sid # sid),
                  !.enrollments = IF ForeignKeys(v)
                                  THEN SelectSeq(@, LAMBDA e : e.sid # sid) ELSE @])

\* variant: courses.iid declared ON DELETE CASCADE, and the explicit UPDATE missing
DeleteInstructorRow_cascade(DB, v, iid) ==
  Done([DB EXCEPT !.instructors = SelectSeq(@, LAMBDA r : r.iid # iid),
                  !.courses = SelectSeq(@, LAMBDA c : c.iid # iid),
                  !.enrollments =
                     SelectSeq(@, LAMBDA e : \E k \in 1..Len(DB.courses) :
                                   DB.courses[k].cid = e.cid /\ DB.courses[k].iid # iid)])

\* DELETE FROM instructors WHERE iid=?   (courses.iid ... ON DELETE SET NULL)
DeleteInstructorRow(DB, v, iid) ==
  Done([DB EXCEPT !.instructors = SelectSeq(@, LAMBDA r : r.iid # iid),
                  !.courses = IF ForeignKeys(v)
                              THEN [k \in 1..Len(@) |->
                                      IF @[k].iid = iid THEN [@[k] EXCEPT !.iid = None]
                                      ELSE @[k]]
                              ELSE @])

\* DELETE FROM courses WHERE cid=?   (enrollments.cid ... ON DELETE CASCADE)
DeleteCourseRow(DB, v, cid) ==
  Done([DB EXCEPT !.courses = SelectSeq(@, LAMBDA r : r.cid # cid),
                  !.enrollments = IF ForeignKeys(v)
                                  THEN SelectSeq(@, LAMBDA e : e.cid # cid) ELSE @])

\* two statements of one transaction
Then(R, S(_)) == IF R.raised THEN R ELSE S(R.db)

(***************************************************************************)
(* The store's calls                                                       *)
(***************************************************************************)
add_student(DB, v, sid, name, age, email) ==
  Transaction(DB, InsertStudent(DB, sid, name, age, email))

update_student(DB, v, sid, name, age, email) ==
  Transaction(DB, UpdateStudent(DB, sid, name, age, email))

\* variant: the enrollments are deleted by course ID
delete_student_wrong_column(DB, v, sid) ==
  Transaction(DB, Then(DeleteEnrollmentsOfCourse(DB, sid),
                       LAMBDA D : DeleteStudentRow(D, "root", sid)))

delete_student(DB, v, sid) ==
  IF v = "models" THEN Transaction(DB, DeleteStudentRow(DB, v, sid))
  ELSE Transaction(DB, Then(DeleteEnrollmentsOfStudent(DB, sid),
                            LAMBDA D : DeleteStudentRow(D, v, sid)))

register_student(DB, v, sid, cid) ==
  Transaction(DB, InsertEnrollment(DB, v, cid, sid))

unregister_student(DB, v, sid, cid) ==
  Transaction(DB, DeleteEnrollment(DB, sid, cid))

add_instructor(DB, v, iid, name, age, email) ==
  Transaction(DB, InsertInstructor(DB, iid, name, age, email))

update_instructor(DB, v, iid, name, age, email) ==
  Transaction(DB, UpdateInstructor(DB, iid, name, age, email))

delete_instructor(DB, v, iid) ==
  IF v = "models" THEN Transaction(DB, DeleteInstructorRow(DB, v, iid))
  ELSE Transaction(DB, Then(ClearCourseInstructor(DB, iid),
                            LAMBDA D : DeleteInstructorRow(D, v, iid)))

\* models/db.py names it assign_instructor
set_course_instructor(DB, v, cid, iid) ==
  Transaction(DB, UpdateCourseInstructor(DB, v, cid, iid))

add_course(DB, v, cid, name, iid) ==
  Transaction(DB, InsertCourse(DB, v, cid, name, iid))

update_course_name(DB, v, cid, name) ==
  Transaction(DB, UpdateCourseName(DB, cid, name))

\* models/db.py: UPDATE courses SET course_name=?, instructor_id=? WHERE course_id=?
update_course(DB, v, cid, name, iid) ==
  Transaction(DB, Then(UpdateCourseInstructor(DB, v, cid, iid),
                       LAMBDA D : UpdateCourseName(D, cid, name)))

delete_course(DB, v, cid) ==
  IF v = "models" THEN Transaction(DB, DeleteCourseRow(DB, v, cid))
  ELSE Transaction(DB, Then(DeleteEnrollmentsOfCourse(DB, cid),
                            LAMBDA D : DeleteCourseRow(D, v, cid)))

(***************************************************************************)
(* Queries (ORDER BY) and the loaders that rebuild the graph from rows     *)
(***************************************************************************)
\* collation rank of the strings in use
Rank(x) ==
  CASE x \in {"a", "s1", "i1", "c1"} -> 1
    [] x \in {"b", "s2", "i2", "c2"} -> 2
    [] OTHER -> 3

\* ORDER BY key ASC; rows of equal key stay in scan order
OrderBy(rows, Key(_)) ==
  LET n == Len(rows)
      pos(k) == 1 + Cardinality({j \in 1..n :
                       \/ Rank(Key(rows[j])) < Rank(Key(rows[k]))
                       \/ (Rank(Key(rows[j])) = Rank(Key(rows[k])) /\ j < k)})
  IN [p \in 1..n |-> rows[CHOOSE k \in 1..n : pos(k) = p]]

\* core: ORDER BY name; models/db.py get_all_students: ORDER BY student_id
list_students(DB, v) ==
  IF v = "models" THEN OrderBy(DB.students, LAMBDA r : r.sid)
  ELSE OrderBy(DB.students, LAMBDA r : r.name)

list_instructors(DB, v) ==
  IF v = "models" THEN OrderBy(DB.instructors, LAMBDA r : r.iid)
  ELSE OrderBy(DB.instructors, LAMBDA r : r.name)

list_courses(DB) == OrderBy(DB.courses, LAMBDA r : r.cid)

StudentRow(DB, sid) ==
  DB.students[CHOOSE k \in 1..Len(DB.students) : DB.students[k].sid = sid]

CourseRow(DB, cid) ==
  DB.courses[CHOOSE k \in 1..Len(DB.courses) : DB.courses[k].cid = cid]

\* enrollments e JOIN students s ON s.sid = e.sid WHERE e.cid = ?
list_course_roster(DB, v, cid) ==
  LET es == SelectSeq(DB.enrollments, LAMBDA e : e.cid = cid /\ HasStudent(DB, e.sid))
      rows == [k \in 1..Len(es) |-> StudentRow(DB, es[k].sid)]
  IN IF v = "models" THEN OrderBy(rows, LAMBDA r : r.sid)
     ELSE OrderBy(rows, LAMBDA r : r.name)

\* enrollments e JOIN courses c ON c.cid = e.cid WHERE e.sid = ?
list_student_courses(DB, v, sid) ==
  LET es == SelectSeq(DB.enrollments, LAMBDA e : e.sid = sid /\ HasCourse(DB, e.cid))
      rows == [k \in 1..Len(es) |-> CourseRow(DB, es[k].cid)]
  IN IF v = "models" THEN OrderBy(rows, LAMBDA r : r.cid)
     ELSE OrderBy(rows, LAMBDA r : r.name)

\* next((x for x in objs if x.id == id), None)
FirstWithId(ids, refs, id) ==
  LET ks == {k \in 1..Len(refs) : ids[refs[k]] = id}
  IN IF ks = {} THEN NoRef ELSE refs[MinOf(ks)]

find_student_by_id(G, sid) ==
  FirstWithId([r \in DOMAIN G.stu |-> G.stu[r].student_id], G.students, sid)

find_instructor_by_id(G, iid) ==
  FirstWithId([r \in DOMAIN G.ins |-> G.ins[r].instructor_id], G.instructors, iid)

find_course_by_id(G, cid) ==
  FirstWithId([r \in DOMAIN G.crs |-> G.crs[r].course_id], G.courses, cid)

\* Student.register_course (core and models): append if absent
register_course(G, s, c) ==
  [G EXCEPT !.stu[s].registered_courses = AppendIfAbsent(@, c)]

\* Course.add_student: core takes unique (default True); models always checks
add_student_to_course(G, c, s, unique) ==
  [G EXCEPT !.crs[c].enrolled_students =
     IF unique /\ Contains(@, s) THEN @ ELSE Append(@, s)]

\* core Instructor.assign_course(course, unique=True, link_back=True)
assign_course(G, i, c, unique, link_back) ==
  LET G1 == [G EXCEPT !.ins[i].assigned_courses =
                        IF unique /\ Contains(@, c) THEN @ ELSE Append(@, c)]
  IN IF link_back THEN [G1 EXCEPT !.crs[c].instructor = i] ELSE G1

\* models Instructor.assign_course(course): append if absent, no link-back
models_assign_course(G, i, c) ==
  [G EXCEPT !.ins[i].assigned_courses = AppendIfAbsent(@, c)]

\* the objects built from the student and instructor rows, in list order
GraphOfPeople(srows, irows) ==
  [raised |-> FALSE,
   stu |-> [k \in 1..Len(srows) |->
              Student(srows[k].name, srows[k].age, srows[k].email, srows[k].sid)],
   ins |-> [k \in 1..Len(irows) |->
              Instructor(irows[k].name, irows[k].age, irows[k].email, irows[k].iid)],
   crs |-> <<>>,
   students |-> [k \in 1..Len(srows) |-> k],
   instructors |-> [k \in 1..Len(irows) |-> k],
   courses |-> <<>>]

\* ui_tk load_all_from_db, "courses with instructor"
RECURSIVE TkLoadCourses(_, _, _)
TkLoadCourses(G, rows, k) ==
  IF k > Len(rows) THEN G
  ELSE LET inst == IF rows[k].iid # None THEN find_instructor_by_id(G, rows[k].iid)
                   ELSE NoRef
           c == Len(G.crs) + 1
           G1 == [G EXCEPT !.crs = Append(@, Course(rows[k].cid, rows[k].name, inst)),
                           !.courses = Append(@, c)]
           G2 == IF inst # NoRef
                 THEN [G1 EXCEPT !.ins[inst].assigned_courses = AppendIfAbsent(@, c)]
                 ELSE G1
       IN TkLoadCourses(G2, rows, k + 1)

\* ui_tk load_all_from_db, "rosters", one course
RECURSIVE TkLoadRoster(_, _, _, _)
TkLoadRoster(G, c, rows, k) ==
  IF k > Len(rows) THEN G
  ELSE LET s == find_student_by_id(G, rows[k].sid)
           G1 == IF s = NoRef THEN G
                 ELSE [G EXCEPT !.crs[c].enrolled_students = AppendIfAbsent(@, s),
                                !.stu[s].registered_courses = AppendIfAbsent(@, c)]
       IN TkLoadRoster(G1, c, rows, k + 1)

RECURSIVE TkLoadRosters(_, _, _)
TkLoadRosters(G, DB, k) ==
  IF k > Len(G.courses) THEN G
  ELSE TkLoadRosters(
         TkLoadRoster(G, G.courses[k],
                      list_course_roster(DB, "core", G.crs[G.courses[k]].course_id), 1),
         DB, k + 1)

load_all_from_db(DB) ==
  TkLoadRosters(
    TkLoadCourses(GraphOfPeople(list_students(DB, "core"), list_instructors(DB, "core")),
                  list_courses(DB), 1),
    DB, 1)

\* load_all of core/db_manager.py and of models/db_sync.py: "courses"
RECURSIVE LoadAllCourses(_, _, _, _)
LoadAllCourses(G, v, rows, k) ==
  IF k > Len(rows) THEN G
  ELSE LET ins == IF rows[k].iid # None THEN inst_by_id(G, rows[k].iid) ELSE NoRef
           c == Len(G.crs) + 1
           G1 == [G EXCEPT !.crs = Append(@, Course(rows[k].cid, rows[k].name, ins))]
           G2 == IF ins = NoRef THEN G1
                 ELSE IF v = "models" THEN models_assign_course(G1, ins, c)
                 ELSE assign_course(G1, ins, c, TRUE, TRUE)
       IN LoadAllCourses([G2 EXCEPT !.courses = Append(@, c)], v, rows, k + 1)

LinkRegistration_one_sided(G, s, course) == register_course(G, s, course)

\* s.register_course(course); course.add_student(s)
LinkRegistration(G, s, course) ==
  add_student_to_course(register_course(G, s, course), course, s, TRUE)

\* "students": the registrations of one student
RECURSIVE LoadAllRegistrations(_, _, _, _)
LoadAllRegistrations(G, s, rows, k) ==
  IF k > Len(rows) THEN G
  ELSE LET course == crs_by_id(G, rows[k].cid)
           G1 == IF course = NoRef THEN G ELSE LinkRegistration(G, s, course)
       IN LoadAllRegistrations(G1, s, rows, k + 1)

RECURSIVE LoadAllStudents(_, _, _, _, _)
LoadAllStudents(G, DB, v, rows, k) ==
  IF k > Len(rows) THEN G
  ELSE LET s == Len(G.stu) + 1
           G1 == [G EXCEPT !.stu = Append(@, Student(rows[k].name, rows[k].age,
                                                      rows[k].email, rows[k].sid)),
                           !.students = Append(@, s)]
       IN LoadAllStudents(
            LoadAllRegistrations(G1, s, list_student_courses(DB, v, rows[k].sid), 1),
            DB, v, rows, k + 1)

load_all(DB, v) ==
  LoadAllStudents(
    LoadAllCourses(GraphOfPeople(<<>>, list_instructors(DB, v)), v, list_courses(DB), 1),
    DB, v, list_students(DB, v), 1)

(***************************************************************************)
(* Specification of the store: any call of the serving module, with any    *)
(* ID arguments.                                                           *)
(***************************************************************************)
\* no snapshot file is involved
NoSnapshot ==
  /\ doc = [students |-> <<>>, instructors |-> <<>>, courses |-> <<>>]
  /\ doc2 = doc
  /\ graph = EmptyGraph
  /\ graph2 = EmptyGraph
  /\ phase = "none"

\* the number of tables a call changed
Affected(DB1, DB2) ==
  Cardinality({t \in {"students", "instructors", "courses", "enrollments"} :
                 DB1[t] # DB2[t]})

Call(op, R) ==
  \E X \in {R} :
    /\ RowCount(X.db) <= MaxRows
    /\ db' = X.db
    /\ last' = [op |-> op, raised |-> X.raised, affected |-> Affected(db, X.db)]
    /\ UNCHANGED <<variant, loadVars, mem, conns, backup>>

InitStore ==
  /\ db = EmptyDb
  /\ variant \in Variants
  /\ last = [op |-> "init_db", raised |-> FALSE, affected |-> 0]
  /\ NoSnapshot
  /\ conns = <<>>
  /\ backup = NoBackup
  /\ mem = EmptyGraph

StoreAddStudent(sid) ==
  /\ variant # "root"
  /\ Call("add_student", add_student(db, variant, sid, NameOf(sid), 20, "x@y.z"))

StoreUpdateStudent(sid, name) ==
  Call("update_student", update_student(db, variant, sid, name, 20, "x@y.z"))

StoreDeleteStudent(sid) ==
  Call("delete_student", delete_student(db, variant, sid))

StoreRegisterStudent(sid, cid) ==
  Call("register_student", register_student(db, variant, sid, cid))

StoreUnregisterStudent(sid, cid) ==
  /\ variant # "root"
  /\ Call("unregister_student", unregister_student(db, variant, sid, cid))

StoreAddInstructor(iid) ==
  /\ variant # "root"
  /\ Call("add_instructor", add_instructor(db, variant, iid, NameOf(iid), 20, "x@y.z"))

StoreUpdateInstructor(iid, name) ==
  Call("update_instructor", update_instructor(db, variant, iid, name, 20, "x@y.z"))

StoreDeleteInstructor(iid) ==
  Call("delete_instructor", delete_instructor(db, variant, iid))

StoreSetCourseInstructor(cid, iid) ==
  Call("set_course_instructor", set_course_instructor(db, variant, cid, iid))

StoreAddCourse(cid, iid) ==
  /\ variant # "root"
  /\ Call("add_course", add_course(db, variant, cid, NameOf(cid), iid))

StoreUpdateCourseName(cid, name) ==
  /\ variant # "models"
  /\ Call("update_course_name", update_course_name(db, variant, cid, name))

StoreUpdateCourse(cid, name, iid) ==
  /\ variant = "models"
  /\ Call("update_course", update_course(db, variant, cid, name, iid))

StoreDeleteCourse(cid) ==
  Call("delete_course", delete_course(db, variant, cid))

NextStore ==
  \/ \E sid \in StudentIds : StoreAddStudent(sid)
  \/ \E sid \in StudentIds, name \in EditNames : StoreUpdateStudent(sid, name)
  \/ \E sid \in StudentIds : StoreDeleteStudent(sid)
  \/ \E sid \in StudentIds, cid \in CourseIds : StoreRegisterStudent(sid, cid)
  \/ \E sid \in StudentIds, cid \in CourseIds : StoreUnregisterStudent(sid, cid)
  \/ \E iid \in InstructorIds : StoreAddInstructor(iid)
  \/ \E iid \in InstructorIds, name \in EditNames : StoreUpdateInstructor(iid, name)
  \/ \E iid \in InstructorIds : StoreDeleteInstructor(iid)
  \/ \E cid \in CourseIds, iid \in InstructorIds \cup {None} : StoreSetCourseInstructor(cid, iid)
  \/ \E cid \in CourseIds, iid \in InstructorIds \cup {None} : StoreAddCourse(cid, iid)
  \/ \E cid \in CourseIds, name \in EditNames : StoreUpdateCourseName(cid, name)
  \/ \E cid \in CourseIds, name \in EditNames, iid \in InstructorIds \cup {None} :
       StoreUpdateCourse(cid, name, iid)
  \/ \E cid \in CourseIds : StoreDeleteCourse(cid)

SpecStore == InitStore /\ [][NextStore]_vars

(***************************************************************************)
(* Properties of the reconciler (SpecLoad)                                 *)
(***************************************************************************)
Loaded == phase # "doc"

\* both symmetry conditions of a graph, over the objects of its collections
InstructorSymmetric(G) ==
  \A c \in CourseRefs(G), i \in InstructorRefs(G) :
    (G.crs[c].instructor = i) <=> Contains(G.ins[i].assigned_courses, c)

EnrollmentSymmetric(G) ==
  \A c \in CourseRefs(G), s \in StudentRefs(G) :
    Contains(G.crs[c].enrolled_students, s) <=> Contains(G.stu[s].registered_courses, c)

\* C1: every graph returned by load_obj_from_json is symmetric: C.instructor
\* is I iff C is in I.assigned_courses, and S is in C.enrolled_students iff
\* C is in S.registered_courses.
C1_Symmetry ==
  Loaded => (InstructorSymmetric(graph) /\ EnrollmentSymmetric(graph))

\* the document's records of one ID, as the sets of pairs each side records
DocStudentSide(D) ==
  {<<D.students[k].student_id, cid>> :
     k \in 1..Len(D.students), cid \in CourseIds} \cap
  {p \in StudentIds \X CourseIds :
     \E k \in 1..Len(D.students) :
       D.students[k].student_id = p[1] /\ Contains(D.students[k].registered_courses, p[2])}

DocCourseSide(D) ==
  {p \in StudentIds \X CourseIds :
     \E k \in 1..Len(D.courses) :
       D.courses[k].course_id = p[2] /\ Contains(D.courses[k].enrolled_students, p[1])}

DocHasStudent(D, sid) == \E k \in 1..Len(D.students) : D.students[k].student_id = sid
DocHasInstructor(D, iid) == \E k \in 1..Len(D.instructors) : D.instructors[k].instructor_id = iid
DocHasCourse(D, cid) == \E k \in 1..Len(D.courses) : D.courses[k].course_id = cid

OneSidedEnrollments(D) ==
  {p \in (DocStudentSide(D) \cup DocCourseSide(D)) \ (DocStudentSide(D) \cap DocCourseSide(D)) :
     DocHasStudent(D, p[1]) /\ DocHasCourse(D, p[2])}

LinkedOnce(G, p) ==
  LET s == stu_by_id(G, p[1])
      c == crs_by_id(G, p[2])
  IN /\ Count(G.stu[s].registered_courses, c) = 1
     /\ Count(G.crs[c].enrolled_students, s) = 1

\* C3: an enrollment the document records on one side only, both IDs
\* resolving, is in the loaded graph in both directions, each exactly once.
C3_OneSidedEnrollmentLinked ==
  Loaded => \A p \in OneSidedEnrollments(doc) : LinkedOnce(graph, p)

C3_Witness ==
  /\ Loaded
  /\ \E p \in DocStudentSide(doc) \ DocCourseSide(doc) :
       p \in OneSidedEnrollments(doc) /\ LinkedOnce(graph, p)
  /\ \E p \in DocCourseSide(doc) \ DocStudentSide(doc) :
       p \in OneSidedEnrollments(doc) /\ LinkedOnce(graph, p)

\* the instructor ID the course records give a course: the instructor field
\* of the last record of that course ID that names an instructor of the document
CourseSideInstructor(D, cid) ==
  LET ks == {k \in 1..Len(D.courses) :
               /\ D.courses[k].course_id = cid
               /\ D.courses[k].instructor # None
               /\ DocHasInstructor(D, D.courses[k].instructor)}
  IN IF ks = {} THEN None ELSE D.courses[MaxOf(ks)].instructor

\* the instructor ID the instructor records give a course: the first record
\* that lists the course
InstructorSideInstructor(D, cid) ==
  LET ks == {k \in 1..Len(D.instructors) : Contains(D.instructors[k].assigned_courses, cid)}
  IN IF ks = {} THEN None ELSE D.instructors[MinOf(ks)].instructor_id

InstructorIdOf(G, c) ==
  IF G.crs[c].instructor = NoRef THEN None
  ELSE G.ins[G.crs[c].instructor].instructor_id

\* C4: the instructor a course record names (when it resolves) is the
\* course's instructor whatever the instructor records list; the instructor
\* records decide only for a course the course records left without one.
C4_CourseSideWins ==
  Loaded =>
    \A cid \in IdsOfCourses(graph) :
      LET c == crs_by_id(graph, cid)
      IN IF CourseSideInstructor(doc, cid) # None
         THEN /\ InstructorIdOf(graph, c) = CourseSideInstructor(doc, cid)
              /\ graph.crs[c].instructor = inst_by_id(graph, CourseSideInstructor(doc, cid))
         ELSE InstructorIdOf(graph, c) = InstructorSideInstructor(doc, cid)

C4_Witness ==
  /\ Loaded
  /\ \E cid \in IdsOfCourses(graph) :
       /\ CourseSideInstructor(doc, cid) # None
       /\ \E k \in 1..Len(doc.instructors) :
            /\ doc.instructors[k].instructor_id # CourseSideInstructor(doc, cid)
            /\ Contains(doc.instructors[k].assigned_courses, cid)
       /\ InstructorIdOf(graph, crs_by_id(graph, cid)) = CourseSideInstructor(doc, cid)

\* references of a document: (kind, source ID, target ID)
DocAssignedSide(D) ==
  {p \in InstructorIds \X CourseIds :
     \E k \in 1..Len(D.instructors) :
       D.instructors[k].instructor_id = p[1] /\ Contains(D.instructors[k].assigned_courses, p[2])}

DocInstructorField(D) ==
  {p \in CourseIds \X InstructorIds :
     \E k \in 1..Len(D.courses) :
       D.courses[k].course_id = p[1] /\ D.courses[k].instructor = p[2]}

DocHasDangling(D) ==
  \/ \E p \in DocStudentSide(D) : ~DocHasCourse(D, p[2])
  \/ \E p \in DocCourseSide(D) : ~DocHasStudent(D, p[1])
  \/ \E p \in DocAssignedSide(D) : ~DocHasCourse(D, p[2])
  \/ \E p \in DocInstructorField(D) : ~DocHasInstructor(D, p[2])

\* every reference in a relationship field is an object of the collections
NoForeignEdge(G) ==
  /\ \A s \in DOMAIN G.stu : Range(G.stu[s].registered_courses) \subseteq CourseRefs(G)
  /\ \A i \in DOMAIN G.ins : Range(G.ins[i].assigned_courses) \subseteq CourseRefs(G)
  /\ \A c \in DOMAIN G.crs :
       /\ Range(G.crs[c].enrolled_students) \subseteq StudentRefs(G)
       /\ G.crs[c].instructor \in InstructorRefs(G) \cup {NoRef}

\* every edge of the graph is recorded by the document
EdgesRecorded(D, G) ==
  /\ EdgesOf(G).registered_courses \subseteq DocStudentSide(D) \cup DocCourseSide(D)
  /\ \A p \in EdgesOf(G).enrolled_students :
       <<p[2], p[1]>> \in DocStudentSide(D) \cup DocCourseSide(D)
  /\ \A p \in EdgesOf(G).assigned_courses :
       p \in DocAssignedSide(D) \/ <<p[2], p[1]>> \in DocInstructorField(D)
  /\ \A p \in EdgesOf(G).instructor :
       p \in DocInstructorField(D) \/ <<p[2], p[1]>> \in DocAssignedSide(D)

\* every reference of the document whose two IDs resolve is an edge of the graph
ResolvedEdgesCreated(D, G) ==
  /\ \A p \in DocStudentSide(D) \cup DocCourseSide(D) :
       (DocHasStudent(D, p[1]) /\ DocHasCourse(D, p[2])) =>
         /\ Contains(G.stu[stu_by_id(G, p[1])].registered_courses, crs_by_id(G, p[2]))
         /\ Contains(G.crs[crs_by_id(G, p[2])].enrolled_students, stu_by_id(G, p[1]))
  /\ \A p \in DocAssignedSide(D) :
       (DocHasInstructor(D, p[1]) /\ DocHasCourse(D, p[2])) =>
         Contains(G.ins[inst_by_id(G, p[1])].assigned_courses, crs_by_id(G, p[2]))
  /\ \A cid \in CourseIds :
       (DocHasCourse(D, cid) /\ CourseSideInstructor(D, cid) # None) =>
         /\ G.crs[crs_by_id(G, cid)].instructor = inst_by_id(G, CourseSideInstructor(D, cid))
         /\ Contains(G.ins[inst_by_id(G, CourseSideInstructor(D, cid))].assigned_courses,
                     crs_by_id(G, cid))

\* C5: loading a document with dangling references does not raise, creates
\* no edge for a dangling reference and creates every edge whose IDs resolve.
C5_DanglingTolerated ==
  (Loaded /\ DocHasDangling(doc)) =>
    /\ ~graph.raised
    /\ NoForeignEdge(graph)
    /\ EdgesRecorded(doc, graph)
    /\ ResolvedEdgesCreated(doc, graph)

C5_Witness ==
  /\ Loaded
  /\ DocHasDangling(doc)
  /\ ~graph.raised
  /\ EdgesOf(graph).registered_courses # {}
  /\ \E p \in DocAssignedSide(doc) : ~DocHasCourse(doc, p[2])

(***************************************************************************)
(* The Tk front end (ui_tk/main_tkinter.py and its forms): the collections *)
(* students/instructors/courses in `mem`, the store of core/db_manager.py  *)
(* in `db`.  Objects no longer reachable from the collections are          *)
(* reclaimed; a deleted object that some list still holds stays alive.     *)
(***************************************************************************)
\* objects reachable from the three collections
RECURSIVE Reachable(_, _)
Reachable(G, R) ==
  LET R1 == [s |-> R.s \cup UNION {Range(G.crs[c].enrolled_students) : c \in R.c},
             i |-> R.i \cup ({G.crs[c].instructor : c \in R.c} \ {NoRef}),
             c |-> R.c \cup UNION {Range(G.stu[s].registered_courses) : s \in R.s}
                       \cup UNION {Range(G.ins[i].assigned_courses) : i \in R.i}]
  IN IF R1 = R THEN R ELSE Reachable(G, R1)

Ascending(S) ==
  [k \in 1..Cardinality(S) |-> CHOOSE x \in S : Cardinality({y \in S : y < x}) = k - 1]

IndexOf(seq, x) == IF x = NoRef THEN NoRef ELSE CHOOSE k \in 1..Len(seq) : seq[k] = x

Renamed(refs, order) == [k \in 1..Len(refs) |-> IndexOf(order, refs[k])]

\* the graph with its objects renumbered: object k is the one numbered
\* ss[k], is[k], cs[k] before
Renumbered(G, ss, is, cs) ==
  [raised |-> G.raised,
   stu |-> [k \in 1..Len(ss) |->
              [G.stu[ss[k]] EXCEPT !.registered_courses = Renamed(@, cs)]],
   ins |-> [k \in 1..Len(is) |->
              [G.ins[is[k]] EXCEPT !.assigned_courses = Renamed(@, cs)]],
   crs |-> [k \in 1..Len(cs) |->
              [G.crs[cs[k]] EXCEPT !.instructor = IndexOf(is, @),
                                   !.enrolled_students = Renamed(@, ss)]],
   students |-> Renamed(G.students, ss),
   instructors |-> Renamed(G.instructors, is),
   courses |-> Renamed(G.courses, cs)]

\* reference counting: unreachable objects leave the heap.  References are
\* opaque, so the objects that remain are numbered in the order of their
\* collection, the deleted ones that some list still holds after them.
Collect(G) ==
  CHOOSE H \in
    {Renumbered(G, G.students \o Ascending(live.s \ StudentRefs(G)),
                   G.instructors \o Ascending(live.i \ InstructorRefs(G)),
                   G.courses \o Ascending(live.c \ CourseRefs(G))) :
       live \in {Reachable(G, [s |-> StudentRefs(G), i |-> InstructorRefs(G),
                               c |-> CourseRefs(G)])}} : TRUE

\* the reference of a new object
NewRef(heap) == Len(heap) + 1

\* what a handler leaves behind: `raised` is an exception it did not catch
TkResult(raised, DB, M) == [raised |-> raised, db |-> DB, mem |-> M]

\* tkinter_forms_student.add_student (fields filled and valid)
tk_add_student(DB, M, sid, name, age, email) ==
  LET R == add_student(DB, "core", sid, name, age, email)
      s == NewRef(M.stu)
  IN IF find_student_by_id(M, sid) # NoRef THEN TkResult(FALSE, DB, M)
     ELSE IF R.raised THEN TkResult(FALSE, R.db, M)
     ELSE TkResult(FALSE, R.db,
            [M EXCEPT !.stu = Append(@, Student(name, age, email, sid)),
                      !.students = Append(@, s)])

\* tkinter_forms_instructor.add_instructor
tk_add_instructor(DB, M, iid, name, age, email) ==
  LET R == add_instructor(DB, "core", iid, name, age, email)
      i == NewRef(M.ins)
  IN IF find_instructor_by_id(M, iid) # NoRef THEN TkResult(FALSE, DB, M)
     ELSE IF R.raised THEN TkResult(FALSE, R.db, M)
     ELSE TkResult(FALSE, R.db,
            [M EXCEPT !.ins = Append(@, Instructor(name, age, email, iid)),
                      !.instructors = Append(@, i)])

\* tkinter_forms_course.add_course: db.add_course(DB_PATH, cid, cname)
tk_add_course(DB, M, cid, cname) ==
  LET R == add_course(DB, "core", cid, cname, None)
      c == NewRef(M.crs)
  IN IF find_course_by_id(M, cid) # NoRef THEN TkResult(FALSE, DB, M)
     ELSE IF R.raised THEN TkResult(FALSE, R.db, M)
     ELSE TkResult(FALSE, R.db,
            [M EXCEPT !.crs = Append(@, Course(cid, cname, NoRef)),
                      !.courses = Append(@, c)])

register_student_to_course(DB, M, sid, cid) ==
  LET s == find_student_by_id(M, sid)
      c == find_course_by_id(M, cid)
      R == register_student(DB, "core", sid, cid)
  IN IF s = NoRef \/ c = NoRef THEN TkResult(FALSE, DB, M)
     ELSE IF Contains(M.stu[s].registered_courses, c)
             \/ Contains(M.crs[c].enrolled_students, s)
     THEN TkResult(FALSE, DB, M)
     ELSE IF R.raised THEN TkResult(TRUE, R.db, M)
     ELSE TkResult(FALSE, R.db,
            [M EXCEPT !.stu[s].registered_courses = AppendIfAbsent(@, c),
                      !.crs[c].enrolled_students = AppendIfAbsent(@, s)])

assign_instructor_to_course(DB, M, iid, cid) ==
  LET inst == find_instructor_by_id(M, iid)
      c == find_course_by_id(M, cid)
      M1 == [M EXCEPT !.crs[c].instructor = inst]
      R == set_course_instructor(DB, "core", cid, iid)
  IN IF inst = NoRef \/ c = NoRef THEN TkResult(FALSE, DB, M)
     ELSE IF M.crs[c].instructor = inst THEN TkResult(FALSE, DB, M)
     ELSE IF R.raised THEN TkResult(TRUE, R.db, M1)
     ELSE TkResult(FALSE, R.db,
            [M1 EXCEPT !.ins[inst].assigned_courses = AppendIfAbsent(@, c)])

delete_selected_student(DB, M, sid) ==
  LET s == find_student_by_id(M, sid)
      R == delete_student(DB, "core", sid)
  IN IF s = NoRef THEN TkResult(FALSE, DB, M)
     ELSE IF R.raised THEN TkResult(FALSE, R.db, M)
     ELSE TkResult(FALSE, R.db,
            [M EXCEPT !.crs = [c \in DOMAIN M.crs |->
                                 IF c \in CourseRefs(M)
                                 THEN [M.crs[c] EXCEPT !.enrolled_students = RemoveFirst(@, s)]
                                 ELSE M.crs[c]],
                      !.students = RemoveFirst(@, s)])

\* for c in courses: if c.instructor is inst: c.instructor = None; db.set_course_instructor
RECURSIVE TkClearInstructor(_, _, _)
TkClearInstructor(T, inst, k) ==
  IF T.raised \/ k > Len(T.mem.courses) THEN T
  ELSE LET c == T.mem.courses[k]
           R == set_course_instructor(T.db, "core", T.mem.crs[c].course_id, None)
       IN IF T.mem.crs[c].instructor = inst
          THEN TkClearInstructor(
                 TkResult(R.raised, R.db, [T.mem EXCEPT !.crs[c].instructor = NoRef]),
                 inst, k + 1)
          ELSE TkClearInstructor(T, inst, k + 1)

delete_selected_instructor(DB, M, iid) ==
  LET inst == find_instructor_by_id(M, iid)
      T == TkClearInstructor(TkResult(FALSE, DB, M), inst, 1)
      R == delete_instructor(T.db, "core", iid)
  IN IF inst = NoRef THEN TkResult(FALSE, DB, M)
     ELSE IF T.raised THEN T
     ELSE IF R.raised THEN TkResult(TRUE, R.db, T.mem)
     ELSE TkResult(FALSE, R.db, [T.mem EXCEPT !.instructors = RemoveFirst(@, inst)])

delete_selected_course(DB, M, cid) ==
  LET c == find_course_by_id(M, cid)
      R == delete_course(DB, "core", cid)
      inst == M.crs[c].instructor
      M1 == [M EXCEPT !.stu = [s \in DOMAIN M.stu |->
                                 IF s \in StudentRefs(M)
                                 THEN [M.stu[s] EXCEPT !.registered_courses = RemoveFirst(@, c)]
                                 ELSE M.stu[s]]]
      M2 == IF inst # NoRef
            THEN [M1 EXCEPT !.ins[inst].assigned_courses = RemoveFirst(@, c)]
            ELSE M1
  IN IF c = NoRef THEN TkResult(FALSE, DB, M)
     ELSE IF R.raised THEN TkResult(TRUE, R.db, M)
     ELSE TkResult(FALSE, R.db, [M2 EXCEPT !.courses = RemoveFirst(@, c)])

\* load_json: the collections are replaced by the loaded ones; the store is not written
load_json(DB, M, D) ==
  LET G == load_obj_from_json(D)
  IN IF G.raised THEN TkResult(TRUE, DB, M) ELSE TkResult(FALSE, DB, G)

\* the IDs typed into the forms of the front end
TkStudentIds == {"s1"}
TkInstructorIds == {"i1", "i2"}
TkCourseIds == {"c1"}

\* the snapshot files a user may open: one record of each class and one
\* relationship, written on one side only
TkFiles ==
  {DocWithRefs(DocRecords(<<"s1">>, <<"i1">>, <<"c1">>), <<r>>, 1) :
     r \in {x \in DocRefItems(1, 1, 1) : x.target \in {"s1", "i1", "c1"}}}

(***************************************************************************)
(* Specification of the Tk front end: main() on an empty store, then any   *)
(* sequence of the user's actions.                                         *)
(***************************************************************************)
Init ==
  /\ db = EmptyDb
  /\ variant = "core"
  /\ last = [op |-> "main", raised |-> FALSE, affected |-> 0]
  /\ mem = load_all_from_db(EmptyDb)
  /\ NoSnapshot
  /\ conns = <<>>
  /\ backup = NoBackup

TkStep(op, T) ==
  \E R \in {T} :
    /\ RowCount(R.db) <= MaxRows
    /\ db' = R.db
    /\ mem' = Collect(R.mem)
    /\ Len(mem'.stu) <= MaxHeap
    /\ Len(mem'.ins) <= MaxHeap
    /\ Len(mem'.crs) <= MaxHeap
    /\ last' = [op |-> op, raised |-> R.raised, affected |-> Affected(db, R.db)]
    /\ UNCHANGED <<variant, loadVars, conns, backup>>

AddStudent(sid) ==
  TkStep("add_student", tk_add_student(db, mem, sid, NameOf(sid), 20, "x@y.z"))

AddInstructor(iid) ==
  TkStep("add_instructor", tk_add_instructor(db, mem, iid, NameOf(iid), 20, "x@y.z"))

AddCourse(cid) ==
  TkStep("add_course", tk_add_course(db, mem, cid, NameOf(cid)))

RegisterStudentToCourse(sid, cid) ==
  TkStep("register_student_to_course", register_student_to_course(db, mem, sid, cid))

AssignInstructorToCourse(iid, cid) ==
  TkStep("assign_instructor_to_course", assign_instructor_to_course(db, mem, iid, cid))

DeleteSelectedStudent(sid) ==
  TkStep("delete_selected_student", delete_selected_student(db, mem, sid))

DeleteSelectedInstructor(iid) ==
  TkStep("delete_selected_instructor", delete_selected_instructor(db, mem, iid))

DeleteSelectedCourse(cid) ==
  TkStep("delete_selected_course", delete_selected_course(db, mem, cid))

TkLoadJson(D) ==
  TkStep("load_json", load_json(db, mem, D))

\* the window is closed and the program started again
Restart ==
  TkStep("main", TkResult(FALSE, db, load_all_from_db(db)))

Next ==
  \/ \E sid \in TkStudentIds : AddStudent(sid)
  \/ \E iid \in TkInstructorIds : AddInstructor(iid)
  \/ \E cid \in TkCourseIds : AddCourse(cid)
  \/ \E sid \in TkStudentIds, cid \in TkCourseIds : RegisterStudentToCourse(sid, cid)
  \/ \E iid \in TkInstructorIds, cid \in TkCourseIds : AssignInstructorToCourse(iid, cid)
  \/ \E sid \in TkStudentIds : DeleteSelectedStudent(sid)
  \/ \E iid \in TkInstructorIds : DeleteSelectedInstructor(iid)
  \/ \E cid \in TkCourseIds : DeleteSelectedCourse(cid)
  \/ \E D \in TkFiles : TkLoadJson(D)
  \/ Restart

Spec == Init /\ [][Next]_vars

\* the same front end when the user opens no snapshot file: the add,
\* register, assign and delete actions only
NextTk ==
  \/ \E sid \in TkStudentIds : AddStudent(sid)
  \/ \E iid \in TkInstructorIds : AddInstructor(iid)
  \/ \E cid \in TkCourseIds : AddCourse(cid)
  \/ \E sid \in TkStudentIds, cid \in TkCourseIds : RegisterStudentToCourse(sid, cid)
  \/ \E iid \in TkInstructorIds, cid \in TkCourseIds : AssignInstructorToCourse(iid, cid)
  \/ \E sid \in TkStudentIds : DeleteSelectedStudent(sid)
  \/ \E iid \in TkInstructorIds : DeleteSelectedInstructor(iid)
  \/ \E cid \in TkCourseIds : DeleteSelectedCourse(cid)

SpecTk == Init /\ [][NextTk]_vars

\* edit_selected_student: the row is updated in the store, then the name,
\* age and email of the object; the ID is the key and is never written
edit_selected_student(DB, M, sid, name, age, email) ==
  LET s == find_student_by_id(M, sid)
      R == update_student(DB, "core", sid, name, age, email)
  IN IF s = NoRef THEN TkResult(FALSE, DB, M)
     ELSE IF R.raised THEN TkResult(FALSE, R.db, M)
     ELSE TkResult(FALSE, R.db,
            [M EXCEPT !.stu[s].name = name, !.stu[s].age = age,
                      !.stu[s].email = email])

\* edit_selected_instructor
edit_selected_instructor(DB, M, iid, name, age, email) ==
  LET inst == find_instructor_by_id(M, iid)
      R == update_instructor(DB, "core", iid, name, age, email)
  IN IF inst = NoRef THEN TkResult(FALSE, DB, M)
     ELSE IF R.raised THEN TkResult(FALSE, R.db, M)
     ELSE TkResult(FALSE, R.db,
            [M EXCEPT !.ins[inst].name = name, !.ins[inst].age = age,
                      !.ins[inst].email = email])

\* edit_selected_course: db.update_course_name, then course_name
edit_selected_course(DB, M, cid, name) ==
  LET c == find_course_by_id(M, cid)
      R == update_course_name(DB, "core", cid, name)
  IN IF c = NoRef THEN TkResult(FALSE, DB, M)
     ELSE IF R.raised THEN TkResult(FALSE, R.db, M)
     ELSE TkResult(FALSE, R.db, [M EXCEPT !.crs[c].course_name = name])

EditSelectedStudent(sid, name) ==
  TkStep("edit_selected_student",
         edit_selected_student(db, mem, sid, name, 20, "x@y.z"))

EditSelectedInstructor(iid, name) ==
  TkStep("edit_selected_instructor",
         edit_selected_instructor(db, mem, iid, name, 20, "x@y.z"))

EditSelectedCourse(cid, name) ==
  TkStep("edit_selected_course", edit_selected_course(db, mem, cid, name))

\* snapshot files in which one ID is written on two records
TkFilesRepeated ==
  {DocRecords(<<"s1", "s1">>, <<"i1">>, <<"c1">>),
   DocRecords(<<"s1">>, <<"i1", "i1">>, <<"c1">>),
   DocRecords(<<"s1">>, <<"i1">>, <<"c1", "c1">>)}

\* the record actions of the front end: add, edit, delete and load_json
NextTkRecords ==
  \/ \E sid \in TkStudentIds : AddStudent(sid)
  \/ \E iid \in TkInstructorIds : AddInstructor(iid)
  \/ \E cid \in TkCourseIds : AddCourse(cid)
  \/ \E sid \in TkStudentIds, name \in EditNames : EditSelectedStudent(sid, name)
  \/ \E iid \in TkInstructorIds, name \in EditNames : EditSelectedInstructor(iid, name)
  \/ \E cid \in TkCourseIds, name \in EditNames : EditSelectedCourse(cid, name)
  \/ \E sid \in TkStudentIds : DeleteSelectedStudent(sid)
  \/ \E iid \in TkInstructorIds : DeleteSelectedInstructor(iid)
  \/ \E cid \in TkCourseIds : DeleteSelectedCourse(cid)
  \/ \E D \in TkFilesRepeated : TkLoadJson(D)

SpecTkRecords == Init /\ [][NextTkRecords]_vars

(***************************************************************************)
(* The entity classes called directly. The repository holds three          *)
(* families of them: core (src/src/core/models), models (src/src/models)   *)
(* and the flat modules that import `person` (src/course.py,               *)
(* src/instructor.py, src/src/ui_tk/student.py), named "root" here.        *)
(***************************************************************************)
\* Course.add_student(student, unique=...): only core takes the flag
Course_add_student(G, v, c, s, unique) ==
  IF v = "core" THEN add_student_to_course(G, c, s, unique)
  ELSE IF v = "models" THEN add_student_to_course(G, c, s, TRUE)
  ELSE [G EXCEPT !.crs[c].enrolled_students = Append(@, s)]

\* Student.register_course(course)
Student_register_course(G, v, s, c) ==
  IF v \in {"core", "models"} THEN register_course(G, s, c)
  ELSE [G EXCEPT !.stu[s].registered_courses = Append(@, c)]

\* Instructor.assign_course(course, unique=..., link_back=...): only core
\* takes the flags
Instructor_assign_course(G, v, i, c, unique, link_back) ==
  IF v = "core" THEN assign_course(G, i, c, unique, link_back)
  ELSE IF v = "models" THEN models_assign_course(G, i, c)
  ELSE [G EXCEPT !.ins[i].assigned_courses = Append(@, c),
                 !.crs[c].instructor = i]

\* one student, two instructors and one course, not yet related
Objects ==
  [raised |-> FALSE,
   stu |-> <<Student("a", 20, "x@y.z", "s1")>>,
   ins |-> <<Instructor("a", 20, "x@y.z", "i1"), Instructor("b", 20, "x@y.z", "i2")>>,
   crs |-> <<Course("c1", "a", NoRef)>>,
   students |-> <<1>>, instructors |-> <<1, 2>>, courses |-> <<1>>]

InitObjects ==
  /\ variant \in Variants
  /\ mem = Objects
  /\ db = EmptyDb
  /\ last = [op |-> "new", raised |-> FALSE, affected |-> 0]
  /\ NoSnapshot
  /\ conns = <<>>
  /\ backup = NoBackup

\* a method call on the objects: the lists stay within MaxRefs entries
Method(op, G) ==
  /\ \A s \in StudentRefs(G) : Len(G.stu[s].registered_courses) <= MaxRefs
  /\ \A i \in InstructorRefs(G) : Len(G.ins[i].assigned_courses) <= MaxRefs
  /\ \A c \in CourseRefs(G) : Len(G.crs[c].enrolled_students) <= MaxRefs
  /\ mem' = G
  /\ last' = [op |-> op, raised |-> FALSE, affected |-> 0]
  /\ UNCHANGED <<db, variant, loadVars, conns, backup>>

CallAddStudent(c, s, unique) ==
  Method("add_student", Course_add_student(mem, variant, c, s, unique))

CallRegisterCourse(s, c) ==
  Method("register_course", Student_register_course(mem, variant, s, c))

CallAssignCourse(i, c, unique, link_back) ==
  Method("assign_course", Instructor_assign_course(mem, variant, i, c, unique, link_back))

NextObjects ==
  \/ \E c \in CourseRefs(mem), s \in StudentRefs(mem), unique \in BOOLEAN :
       CallAddStudent(c, s, unique)
  \/ \E s \in StudentRefs(mem), c \in CourseRefs(mem) : CallRegisterCourse(s, c)
  \/ \E i \in InstructorRefs(mem), c \in CourseRefs(mem), unique \in BOOLEAN,
        link_back \in BOOLEAN :
       CallAssignCourse(i, c, unique, link_back)

SpecObjects == InitObjects /\ [][NextObjects]_vars

(***************************************************************************)
(* The Qt front end (src/src/ui_qt/qt_app.py) over models/db.py: every     *)
(* handler writes the store and then reloads the collections from it.      *)
(***************************************************************************)
\* MainWindow.load_into_memory, the course loop: the instructor named by
\* each course record, if it resolves, is given to the course and linked
RECURSIVE QtLinkCourses(_, _, _)
QtLinkCourses(G, cds, k) ==
  IF k > Len(cds) THEN G
  ELSE LET instr == IF cds[k].instructor = None THEN NoRef
                    ELSE inst_by_id(G, cds[k].instructor)
       IN IF instr = NoRef THEN QtLinkCourses(G, cds, k + 1)
          ELSE QtLinkCourses(
                 models_assign_course([G EXCEPT !.crs[k].instructor = instr], instr, k),
                 cds, k + 1)

\* the student loop, one student record: its registered_courses that resolve
RECURSIVE QtLinkRegistered(_, _, _, _)
QtLinkRegistered(G, s, cids, k) ==
  IF k > Len(cids) THEN G
  ELSE LET c == crs_by_id(G, cids[k])
       IN IF c = NoRef THEN QtLinkRegistered(G, s, cids, k + 1)
          ELSE QtLinkRegistered(
                 add_student_to_course(register_course(G, s, c), c, s, TRUE),
                 s, cids, k + 1)

RECURSIVE QtLinkStudents(_, _, _)
QtLinkStudents(G, sds, k) ==
  IF k > Len(sds) THEN G
  ELSE QtLinkStudents(QtLinkRegistered(G, k, sds[k].registered_courses, 1), sds, k + 1)

load_into_memory(D) ==
  QtLinkStudents(QtLinkCourses(LoadObjects(D), D.courses, 1), D.students, 1)

\* the statements overwrite_db_from_memory has executed so far: the store,
\* whether the last call raised, and the calls in the order they were made
\* (a = the key of the row, b = the key it references or None)
Logged(R, S, op, a, b) ==
  [raised |-> S.raised, db |-> S.db,
   log |-> Append(R.log, [op |-> op, a |-> a, b |-> b, raised |-> S.raised])]

\* variant: the DELETE FROM instructors statement missing
ClearTables_without_instructors(DB) ==
  [raised |-> FALSE,
   db |-> [EmptyDb EXCEPT !.instructors = DB.instructors],
   log |-> <<[op |-> "delete", a |-> "registrations", b |-> None, raised |-> FALSE],
             [op |-> "delete", a |-> "courses", b |-> None, raised |-> FALSE],
             [op |-> "delete", a |-> "students", b |-> None, raised |-> FALSE]>>]

\* with get_conn() as c: the four DELETE statements, one transaction
ClearTables(DB) ==
  [raised |-> FALSE, db |-> EmptyDb,
   log |-> <<[op |-> "delete", a |-> "registrations", b |-> None, raised |-> FALSE],
             [op |-> "delete", a |-> "courses", b |-> None, raised |-> FALSE],
             [op |-> "delete", a |-> "students", b |-> None, raised |-> FALSE],
             [op |-> "delete", a |-> "instructors", b |-> None, raised |-> FALSE]>>]

RECURSIVE OverwriteInstructors(_, _, _)
OverwriteInstructors(R, G, k) ==
  IF R.raised \/ k > Len(G.instructors) THEN R
  ELSE LET ins == G.ins[G.instructors[k]]
       IN OverwriteInstructors(
            Logged(R, add_instructor(R.db, "models", ins.instructor_id, ins.name,
                                     ins.age, ins.email),
                   "add_instructor", ins.instructor_id, None),
            G, k + 1)

RECURSIVE OverwriteCourses(_, _, _)
OverwriteCourses(R, G, k) ==
  IF R.raised \/ k > Len(G.courses) THEN R
  ELSE LET crs == G.crs[G.courses[k]]
           iid == IF crs.instructor # NoRef
                  THEN G.ins[crs.instructor].instructor_id ELSE None
       IN OverwriteCourses(
            Logged(R, add_course(R.db, "models", crs.course_id, crs.course_name, iid),
                   "add_course", crs.course_id, iid),
            G, k + 1)

RECURSIVE OverwriteRegistrations(_, _, _, _)
OverwriteRegistrations(R, G, st, k) ==
  IF R.raised \/ k > Len(st.registered_courses) THEN R
  ELSE LET cid == G.crs[st.registered_courses[k]].course_id
       IN OverwriteRegistrations(
            Logged(R, register_student(R.db, "models", st.student_id, cid),
                   "register_student", st.student_id, cid),
            G, st, k + 1)

RECURSIVE OverwriteStudents(_, _, _)
OverwriteStudents(R, G, k) ==
  IF R.raised \/ k > Len(G.students) THEN R
  ELSE LET st == G.stu[G.students[k]]
       IN OverwriteStudents(
            OverwriteRegistrations(
              Logged(R, add_student(R.db, "models", st.student_id, st.name, st.age,
                                    st.email),
                     "add_student", st.student_id, None),
              G, st, 1),
            G, k + 1)

\* variant: the courses are written before the instructors
OverwriteInserts_courses_first(R, G) ==
  OverwriteStudents(OverwriteInstructors(OverwriteCourses(R, G, 1), G, 1), G, 1)

\* the three insert loops, in the order of the code
OverwriteInserts(R, G) ==
  OverwriteStudents(OverwriteCourses(OverwriteInstructors(R, G, 1), G, 1), G, 1)

overwrite_db_from_memory(DB, G) == OverwriteInserts(ClearTables(DB), G)

\* the result of a handler: the store, the collections, and for load_json
\* the calls overwrite_db_from_memory made
QtResult(raised, DB, M, log) == [raised |-> raised, db |-> DB, mem |-> M, log |-> log]

\* try: <one store call>; self.reload_all()  except: message box
QtCall(M, S) ==
  IF S.raised THEN QtResult(TRUE, S.db, M, <<>>)
  ELSE QtResult(FALSE, S.db, load_all(S.db, "models"), <<>>)

\* MainWindow.load_json
qt_load_json(DB, M, D) ==
  LET G == load_into_memory(D)
      R == overwrite_db_from_memory(DB, G)
  IN IF R.raised THEN QtResult(TRUE, R.db, G, R.log)
     ELSE QtResult(FALSE, R.db, load_all(R.db, "models"), R.log)

QtStudentIds == {"s1"}
QtInstructorIds == {"i1", "i2"}
QtCourseIds == {"c1"}

\* the snapshot files opened in the Qt front end: one or two records of each
\* class (an ID may be repeated) and up to two relationships
QtFiles ==
  {DocWithRefs(DocRecords(ss, is, <<"c1">>), rs, 1) :
     ss \in {<<"s1">>, <<"s1", "s1">>},
     is \in {<<"i1">>, <<"i1", "i2">>, <<"i1", "i1">>},
     rs \in {<<>>,
             <<[kind |-> "instructor", rec |-> 1, target |-> "i1"]>>,
             <<[kind |-> "registered_courses", rec |-> 1, target |-> "c1"]>>,
             <<[kind |-> "instructor", rec |-> 1, target |-> "i2"],
               [kind |-> "registered_courses", rec |-> 1, target |-> "c1"]>>}}

\* main(): create_tables on a new file, MainWindow.__init__ reloads
InitQt ==
  /\ db = EmptyDb
  /\ variant = "models"
  /\ mem = load_all(EmptyDb, "models")
  /\ last = [op |-> "main", raised |-> FALSE, affected |-> 0, log |-> <<>>]
  /\ NoSnapshot
  /\ conns = <<>>
  /\ backup = NoBackup

QtStep(op, T) ==
  \E R \in {T} :
    /\ RowCount(R.db) <= MaxRows
    /\ db' = R.db
    /\ mem' = R.mem
    /\ last' = [op |-> op, raised |-> R.raised, affected |-> Affected(db, R.db),
                log |-> R.log]
    /\ UNCHANGED <<variant, loadVars, conns, backup>>

QtAddStudent(sid) ==
  QtStep("add_student", QtCall(mem, add_student(db, "models", sid, NameOf(sid), 20, "x@y.z")))

QtAddInstructor(iid) ==
  QtStep("add_instructor",
         QtCall(mem, add_instructor(db, "models", iid, NameOf(iid), 20, "x@y.z")))

QtAddCourse(cid) ==
  QtStep("add_course", QtCall(mem, add_course(db, "models", cid, NameOf(cid), None)))

QtAssignInstructor(cid, iid) ==
  QtStep("assign_instructor", QtCall(mem, set_course_instructor(db, "models", cid, iid)))

QtRegisterStudent(sid, cid) ==
  QtStep("register_student", QtCall(mem, register_student(db, "models", sid, cid)))

QtDeleteSelected(kind, key) ==
  QtStep("delete_selected",
         QtCall(mem, IF kind = "student" THEN delete_student(db, "models", key)
                     ELSE IF kind = "instructor" THEN delete_instructor(db, "models", key)
                     ELSE delete_course(db, "models", key)))

QtLoadJson(D) ==
  QtStep("load_json", qt_load_json(db, mem, D))

NextQt ==
  \/ \E sid \in QtStudentIds : QtAddStudent(sid)
  \/ \E iid \in QtInstructorIds : QtAddInstructor(iid)
  \/ \E cid \in QtCourseIds : QtAddCourse(cid)
  \/ \E cid \in QtCourseIds, iid \in QtInstructorIds : QtAssignInstructor(cid, iid)
  \/ \E sid \in QtStudentIds, cid \in QtCourseIds : QtRegisterStudent(sid, cid)
  \/ \E sid \in QtStudentIds : QtDeleteSelected("student", sid)
  \/ \E iid \in QtInstructorIds : QtDeleteSelected("instructor", iid)
  \/ \E cid \in QtCourseIds : QtDeleteSelected("course", cid)
  \/ \E D \in QtFiles : QtLoadJson(D)

SpecQt == InitQt /\ [][NextQt]_vars

(***************************************************************************)
(* The Qt reconciler applied to the enumerated snapshot documents          *)
(***************************************************************************)
QtLoadIntoMemory ==
  /\ phase = "doc"
  /\ graph' = load_into_memory(doc)
  /\ phase' = "loaded"
  /\ UNCHANGED <<doc, doc2, graph2, storeVars, mem>>

NextQtLoad == QtLoadIntoMemory

SpecQtLoad == InitLoad /\ [][NextQtLoad]_vars

(***************************************************************************)
(* The connections of core/db_manager.py and models/db.py. Every call      *)
(* runs inside `with get_conn()`. The list functions of core are           *)
(* generators (`yield from cur` inside the with block): they hand the rows *)
(* to the caller one at a time; those of models/db.py return               *)
(* `fetchall()`. The events of a call, from its start until control is     *)
(* back in the caller, are recorded in last.trace.                         *)
(***************************************************************************)
MaxConns == 1

\* get_conn around a block of statements: commit after the block; an
\* exception skips the commit; the connection is closed in both cases
get_conn(DB, R) ==
  IF R.raised THEN [raised |-> TRUE, db |-> DB, trace |-> <<"connect", "raise", "close">>]
  ELSE [raised |-> FALSE, db |-> R.db, trace |-> <<"connect", "commit", "close">>]

ConnStudentIds == {"s1", "s2"}
ConnInstructorIds == {"i1"}
ConnCourseIds == {"c1"}

InitConn ==
  /\ db = EmptyDb
  /\ variant \in {"core", "models"}
  /\ last = [op |-> "init_db", raised |-> FALSE, affected |-> 0, trace |-> <<>>]
  /\ mem = EmptyGraph
  /\ NoSnapshot
  /\ conns = <<>>
  /\ backup = NoBackup

\* a mutation, called while no list generator is being iterated
Mutation(op, R) ==
  \E X \in {get_conn(db, R)} :
    /\ conns = <<>>
    /\ RowCount(X.db) <= MaxRows
    /\ db' = X.db
    /\ last' = [op |-> op, raised |-> X.raised, affected |-> Affected(db, X.db),
                trace |-> X.trace]
    /\ UNCHANGED <<variant, loadVars, mem, conns, backup>>

ConnAddStudent(sid) ==
  Mutation("add_student", add_student(db, variant, sid, "a", 20, "x@y.z"))

ConnAddInstructor(iid) ==
  Mutation("add_instructor", add_instructor(db, variant, iid, "a", 20, "x@y.z"))

ConnAddCourse(cid, iid) ==
  Mutation("add_course", add_course(db, variant, cid, "a", iid))

ConnRegisterStudent(sid, cid) ==
  Mutation("register_student", register_student(db, variant, sid, cid))

ConnDeleteStudent(sid) ==
  Mutation("delete_student", delete_student(db, variant, sid))

ConnDeleteInstructor(iid) ==
  Mutation("delete_instructor", delete_instructor(db, variant, iid))

ConnDeleteCourse(cid) ==
  Mutation("delete_course", delete_course(db, variant, cid))

\* a list function is called and, in core, its first row requested:
\* models/db.py fetches every row and closes; the core generator closes
\* only when it has no row to yield
ListCall(op, rows) ==
  /\ Len(conns) < MaxConns
  /\ IF variant = "models" \/ rows = <<>>
     THEN /\ conns' = conns
          /\ last' = [op |-> op, raised |-> FALSE, affected |-> 0,
                      trace |-> <<"connect", "commit", "close">>]
     ELSE /\ conns' = Append(conns, [op |-> op, rest |-> Tail(rows)])
          /\ last' = [op |-> op, raised |-> FALSE, affected |-> 0,
                      trace |-> <<"connect", "yield">>]
  /\ UNCHANGED <<db, variant, loadVars, mem, backup>>

ListStudents == ListCall("list_students", list_students(db, variant))

ListInstructors == ListCall("list_instructors", list_instructors(db, variant))

ListCourses == ListCall("list_courses", list_courses(db))

ListCourseRoster(cid) == ListCall("list_course_roster", list_course_roster(db, variant, cid))

ListStudentCourses(sid) ==
  ListCall("list_student_courses", list_student_courses(db, variant, sid))

\* the caller asks the innermost generator for its next row
ListNext ==
  /\ conns # <<>>
  /\ LET g == conns[Len(conns)]
     IN IF g.rest = <<>>
        THEN /\ conns' = SubSeq(conns, 1, Len(conns) - 1)
             /\ last' = [op |-> g.op, raised |-> FALSE, affected |-> 0,
                         trace |-> <<"commit", "close">>]
        ELSE /\ conns' = [conns EXCEPT ![Len(conns)].rest = Tail(@)]
             /\ last' = [op |-> g.op, raised |-> FALSE, affected |-> 0,
                         trace |-> <<"yield">>]
  /\ UNCHANGED <<db, variant, loadVars, mem, backup>>

\* the caller leaves its loop early and the generator is finalised:
\* GeneratorExit at the yield, the finally clause closes the connection
ListClose ==
  /\ conns # <<>>
  /\ conns' = SubSeq(conns, 1, Len(conns) - 1)
  /\ last' = [op |-> conns[Len(conns)].op, raised |-> FALSE, affected |-> 0,
              trace |-> <<"close">>]
  /\ UNCHANGED <<db, variant, loadVars, mem, backup>>

NextConn ==
  \/ \E sid \in ConnStudentIds : ConnAddStudent(sid)
  \/ \E iid \in ConnInstructorIds : ConnAddInstructor(iid)
  \/ \E cid \in ConnCourseIds, iid \in ConnInstructorIds \cup {None} : ConnAddCourse(cid, iid)
  \/ \E sid \in ConnStudentIds, cid \in ConnCourseIds : ConnRegisterStudent(sid, cid)
  \/ \E sid \in ConnStudentIds : ConnDeleteStudent(sid)
  \/ \E iid \in ConnInstructorIds : ConnDeleteInstructor(iid)
  \/ \E cid \in ConnCourseIds : ConnDeleteCourse(cid)
  \/ ListStudents
  \/ ListInstructors
  \/ ListCourses
  \/ \E cid \in ConnCourseIds : ListCourseRoster(cid)
  \/ \E sid \in ConnStudentIds : ListStudentCourses(sid)
  \/ ListNext
  \/ ListClose

SpecConn == InitConn /\ [][NextConn]_vars

(***************************************************************************)
(* Backups. backup_db of core/db_manager.py uses sqlite3's                 *)
(* Connection.backup; backup_db_to_folder of core and backup_db of         *)
(* models/db.py use shutil.copyfile on the database file, which reads the  *)
(* file piece by piece while another process may commit. The file is       *)
(* modelled as four pieces, one per table.                                 *)
(***************************************************************************)
MaxCommits == 2

Pages == <<"students", "instructors", "courses", "enrollments">>

\* the backup functions of each module; TRUE when it copies the raw file
BackupOps(v) ==
  IF v = "core"
  THEN {[op |-> "backup_db", raw |-> FALSE],
        [op |-> "backup_db_global", raw |-> FALSE],
        [op |-> "backup_db_to_folder", raw |-> TRUE]}
  ELSE {[op |-> "backup_db", raw |-> TRUE]}

InitBackup ==
  /\ db = EmptyDb
  /\ variant \in {"core", "models"}
  /\ last = [op |-> "init_db", raised |-> FALSE, affected |-> 0]
  /\ mem = EmptyGraph
  /\ NoSnapshot
  /\ conns = <<>>
  /\ backup = NoBackup

Copying == backup.op # "none" /\ ~backup.done

\* src.backup(dst): the copy is made under the source's read lock
BackupApi(b) ==
  /\ ~Copying
  /\ ~b.raw
  /\ backup' = [op |-> b.op, raw |-> FALSE, pos |-> Len(Pages), copy |-> db,
                states |-> {db}, commits |-> 0, done |-> TRUE]
  /\ last' = [op |-> b.op, raised |-> FALSE, affected |-> 0]
  /\ UNCHANGED <<db, variant, loadVars, mem, conns>>

\* shutil.copyfile(DB_PATH, dst): the destination is opened, nothing copied yet
BackupFileStart(b) ==
  /\ ~Copying
  /\ b.raw
  /\ backup' = [op |-> b.op, raw |-> TRUE, pos |-> 0, copy |-> EmptyDb,
                states |-> {db}, commits |-> 0, done |-> FALSE]
  /\ last' = [op |-> b.op, raised |-> FALSE, affected |-> 0]
  /\ UNCHANGED <<db, variant, loadVars, mem, conns>>

\* shutil.copyfile reads the next piece of the file as it is now
CopyPage ==
  /\ Copying
  /\ LET t == Pages[backup.pos + 1]
     IN backup' = [backup EXCEPT !.pos = @ + 1,
                                 !.copy[t] = db[t],
                                 !.done = (backup.pos + 1 = Len(Pages))]
  /\ UNCHANGED <<db, variant, last, loadVars, mem, conns>>

\* another process commits a change, possibly while a file copy is going on
Writer(op, R) ==
  \E X \in {R} :
    /\ ~X.raised
    /\ X.db # db
    /\ RowCount(X.db) <= MaxRows
    /\ Copying => backup.commits < MaxCommits
    /\ db' = X.db
    /\ backup' = IF Copying
                 THEN [backup EXCEPT !.states = @ \cup {X.db}, !.commits = @ + 1]
                 ELSE backup
    /\ last' = [op |-> op, raised |-> FALSE, affected |-> Affected(db, X.db)]
    /\ UNCHANGED <<variant, loadVars, mem, conns>>

WriterAddStudent(sid) ==
  Writer("add_student", add_student(db, variant, sid, "a", 20, "x@y.z"))

WriterAddInstructor(iid) ==
  Writer("add_instructor", add_instructor(db, variant, iid, "a", 20, "x@y.z"))

WriterAddCourse(cid, iid) ==
  Writer("add_course", add_course(db, variant, cid, "a", iid))

WriterRegisterStudent(sid, cid) ==
  Writer("register_student", register_student(db, variant, sid, cid))

WriterDeleteStudent(sid) ==
  Writer("delete_student", delete_student(db, variant, sid))

NextBackup ==
  \/ \E b \in BackupOps(variant) : BackupApi(b)
  \/ \E b \in BackupOps(variant) : BackupFileStart(b)
  \/ CopyPage
  \/ \E sid \in {"s1"} : WriterAddStudent(sid)
  \/ \E iid \in {"i1"} : WriterAddInstructor(iid)
  \/ \E cid \in {"c1"}, iid \in {"i1", None} : WriterAddCourse(cid, iid)
  \/ \E sid \in {"s1"}, cid \in {"c1"} : WriterRegisterStudent(sid, cid)
  \/ \E sid \in {"s1"} : WriterDeleteStudent(sid)

SpecBackup == InitBackup /\ [][NextBackup]_vars

(***************************************************************************)
(* Properties of the store (SpecStore)                                     *)
(***************************************************************************)
\* the rows of a graph: what the store must hold for the graph to be its image
GraphMatchesStore(G, DB) ==
  /\ ~G.raised
  /\ Len(G.students) = Len(DB.students)
  /\ Len(G.instructors) = Len(DB.instructors)
  /\ Len(G.courses) = Len(DB.courses)
  /\ Cardinality(StudentRefs(G)) = Len(G.students)
  /\ Cardinality(InstructorRefs(G)) = Len(G.instructors)
  /\ Cardinality(CourseRefs(G)) = Len(G.courses)
  /\ ScalarsOf(G).students =
       {<<r.sid, r.name, r.age, r.email>> : r \in Range(DB.students)}
  /\ ScalarsOf(G).instructors =
       {<<r.iid, r.name, r.age, r.email>> : r \in Range(DB.instructors)}
  /\ ScalarsOf(G).courses = {<<r.cid, r.name>> : r \in Range(DB.courses)}
  /\ \A c \in CourseRefs(G) :
       LET iid == CourseRow(DB, G.crs[c].course_id).iid
       IN IF iid # None /\ HasInstructor(DB, iid)
          THEN /\ G.crs[c].instructor \in InstructorRefs(G)
               /\ G.ins[G.crs[c].instructor].instructor_id = iid
          ELSE G.crs[c].instructor = NoRef
  /\ \A c \in CourseRefs(G), s \in StudentRefs(G) :
       /\ Contains(G.crs[c].enrolled_students, s)
            <=> HasEnrollment(DB, G.crs[c].course_id, G.stu[s].student_id)
       /\ Contains(G.stu[s].registered_courses, c)
            <=> HasEnrollment(DB, G.crs[c].course_id, G.stu[s].student_id)
  /\ \A c \in CourseRefs(G), i \in InstructorRefs(G) :
       Contains(G.ins[i].assigned_courses, c) <=> (G.crs[c].instructor = i)
  /\ NoForeignEdge(G)

WithoutIid(rows) == [k \in 1..Len(rows) |-> [cid |-> rows[k].cid, name |-> rows[k].name]]

\* C7: delete_instructor(i) removes the instructors row i, sets iid to NULL
\* in every course row that had iid = i, and changes nothing else.
C7_DeleteInstructorFrame ==
  [][\A i \in InstructorIds :
       (last'.op = "delete_instructor" /\ ~last'.raised /\ StoreDeleteInstructor(i)) =>
         /\ ~HasInstructor(db', i)
         /\ db'.instructors = SelectSeq(db.instructors, LAMBDA r : r.iid # i)
         /\ WithoutIid(db'.courses) = WithoutIid(db.courses)
         /\ \A k \in 1..Len(db.courses) :
              db'.courses[k].iid = IF db.courses[k].iid = i THEN None ELSE db.courses[k].iid
         /\ db'.students = db.students
         /\ db'.enrollments = db.enrollments]_vars

C7_Witness ==
  /\ last.op = "delete_instructor"
  /\ ~last.raised
  /\ last.affected >= 2
  /\ Len(db.courses) = 2
  /\ \E k \in 1..2 : db.courses[k].iid = None
  /\ \E k \in 1..2 : db.courses[k].iid # None
  /\ Len(db.students) >= 1

Integrity(DB) ==
  /\ \A k \in 1..Len(DB.enrollments) :
       HasCourse(DB, DB.enrollments[k].cid) /\ HasStudent(DB, DB.enrollments[k].sid)
  /\ \A k \in 1..Len(DB.courses) :
       DB.courses[k].iid # None => HasInstructor(DB, DB.courses[k].iid)

\* C8: after any sequence of store calls with arbitrary ID arguments every
\* enrollment row names an existing course and student and every non-null
\* courses.iid names an existing instructor.
C8_ReferentialIntegrity == Integrity(db)

\* the same, for the modules that enable foreign keys
C8_IntegrityWithForeignKeys == ForeignKeys(variant) => Integrity(db)

\* C9: delete_student(s) removes the student row and exactly the enrollment
\* rows of s; delete_course(c) removes the course row and exactly the
\* enrollment rows of c; every other row is unchanged.
C9_DeleteCascadesExactly ==
  [][/\ \A s \in StudentIds :
          (last'.op = "delete_student" /\ ~last'.raised /\ StoreDeleteStudent(s)) =>
            /\ db'.students = SelectSeq(db.students, LAMBDA r : r.sid # s)
            /\ db'.enrollments = SelectSeq(db.enrollments, LAMBDA e : e.sid # s)
            /\ db'.courses = db.courses
            /\ db'.instructors = db.instructors
     /\ \A c \in CourseIds :
          (last'.op = "delete_course" /\ ~last'.raised /\ StoreDeleteCourse(c)) =>
            /\ db'.courses = SelectSeq(db.courses, LAMBDA r : r.cid # c)
            /\ db'.enrollments = SelectSeq(db.enrollments, LAMBDA e : e.cid # c)
            /\ db'.students = db.students
            /\ db'.instructors = db.instructors]_vars

C9_Witness ==
  /\ last.op = "delete_student"
  /\ ~last.raised
  /\ last.affected >= 2
  /\ Len(db.students) = 1
  /\ Len(db.enrollments) >= 1
  /\ Len(db.courses) >= 1

(***************************************************************************)
(* Properties of the Tk front end (Spec)                                   *)
(***************************************************************************)
UniqueIds(G) ==
  /\ Cardinality(IdsOfStudents(G)) = Len(G.students)
  /\ Cardinality(IdsOfInstructors(G)) = Len(G.instructors)
  /\ Cardinality(IdsOfCourses(G)) = Len(G.courses)

SameGraph(G, H) ==
  /\ IdsOfStudents(G) = IdsOfStudents(H)
  /\ IdsOfInstructors(G) = IdsOfInstructors(H)
  /\ IdsOfCourses(G) = IdsOfCourses(H)
  /\ ScalarsOf(G) = ScalarsOf(H)
  /\ EdgesOf(G) = EdgesOf(H)

\* C2: the graph held by the front end, IDs unique within each collection,
\* written with save_obj_into_json and read back with load_obj_from_json,
\* comes back with the same IDs, the same scalar fields and the same set of
\* edges in each of the four relationship collections.
C2_RoundTrip ==
  UniqueIds(mem) =>
    /\ ~load_obj_from_json(save_obj_into_json(mem)).raised
    /\ SameGraph(load_obj_from_json(save_obj_into_json(mem)), mem)

RowsFor(DB, sid, cid) ==
  Len(SelectSeq(DB.enrollments, LAMBDA e : e.sid = sid /\ e.cid = cid))

\* C10: registering the same (student, course) pair twice leaves exactly one
\* enrollment row for the pair, exactly one entry for the course in
\* student.registered_courses and one for the student in
\* course.enrolled_students, and the second registration changes nothing:
\* through the store's register_student, and through the Tk
\* register_student_to_course for a student and a course of the collections.
C10_IdempotentEnrollment ==
  \A sid \in TkStudentIds, cid \in TkCourseIds :
    /\ LET R1 == register_student(db, variant, sid, cid)
           R2 == register_student(R1.db, variant, sid, cid)
       IN ~R1.raised =>
            /\ RowsFor(R1.db, sid, cid) = 1
            /\ ~R2.raised
            /\ R2.db = R1.db
    /\ LET s == find_student_by_id(mem, sid)
           c == find_course_by_id(mem, cid)
           T1 == register_student_to_course(db, mem, sid, cid)
           T2 == register_student_to_course(T1.db, T1.mem, sid, cid)
       IN (s # NoRef /\ c # NoRef /\ ~T1.raised) =>
            /\ RowsFor(T2.db, sid, cid) = 1
            /\ Count(T2.mem.stu[s].registered_courses, c) = 1
            /\ Count(T2.mem.crs[c].enrolled_students, s) = 1
            /\ T2 = T1

\* the store's half of C10, for every module and every store state
C10_StoreRegisterIdempotent ==
  \A sid \in StudentIds, cid \in CourseIds :
    LET R1 == register_student(db, variant, sid, cid)
        R2 == register_student(R1.db, variant, sid, cid)
    IN ~R1.raised =>
         /\ RowsFor(R1.db, sid, cid) = 1
         /\ ~R2.raised
         /\ R2.db = R1.db

\* C11: after any sequence of instructor assignments (Instructor.assign_course
\* with default arguments, or the Tk assign_instructor_to_course action),
\* re-assignment of a course to another instructor included, C.instructor is
\* I if and only if C is in I.assigned_courses: an assignment made on a
\* symmetric graph leaves it symmetric.
C11_AssignSymmetry ==
  InstructorSymmetric(mem) =>
    \A i \in InstructorRefs(mem), c \in CourseRefs(mem) :
      /\ InstructorSymmetric(assign_course(mem, i, c, TRUE, TRUE))
      /\ InstructorSymmetric(
           assign_instructor_to_course(db, mem, mem.ins[i].instructor_id,
                                       mem.crs[c].course_id).mem)

\* no object of the collections of G references the student s, the
\* instructor i or the course c
NoEdgeToStudent(G, s) ==
  /\ ~Contains(G.students, s)
  /\ \A c \in CourseRefs(G) : ~Contains(G.crs[c].enrolled_students, s)

NoEdgeToInstructor(G, i) ==
  /\ ~Contains(G.instructors, i)
  /\ \A c \in CourseRefs(G) : G.crs[c].instructor # i

NoEdgeToCourse(G, c) ==
  /\ ~Contains(G.courses, c)
  /\ \A s \in StudentRefs(G) : ~Contains(G.stu[s].registered_courses, c)
  /\ \A i \in InstructorRefs(G) : ~Contains(G.ins[i].assigned_courses, c)

\* C12: after delete_selected_student, delete_selected_instructor or
\* delete_selected_course the deleted object is absent from its collection
\* and no object remaining in the collections references it; deleting an
\* instructor removes no course and leaves every roster unchanged.
C12_DeletionSevers ==
  /\ \A sid \in TkStudentIds :
       LET s == find_student_by_id(mem, sid)
       IN s # NoRef => NoEdgeToStudent(delete_selected_student(db, mem, sid).mem, s)
  /\ \A iid \in TkInstructorIds :
       LET i == find_instructor_by_id(mem, iid)
           M == delete_selected_instructor(db, mem, iid).mem
       IN i # NoRef =>
            /\ NoEdgeToInstructor(M, i)
            /\ M.courses = mem.courses
            /\ \A c \in CourseRefs(mem) :
                 M.crs[c].enrolled_students = mem.crs[c].enrolled_students
  /\ \A cid \in TkCourseIds :
       LET c == find_course_by_id(mem, cid)
       IN c # NoRef => NoEdgeToCourse(delete_selected_course(db, mem, cid).mem, c)

(***************************************************************************)
(* Properties of the entity classes (SpecObjects)                          *)
(***************************************************************************)
\* every relationship list of G holds each object at most once
NoDuplicates(G) ==
  /\ \A s \in StudentRefs(G), c \in CourseRefs(G) :
       /\ Count(G.stu[s].registered_courses, c) <= 1
       /\ Count(G.crs[c].enrolled_students, s) <= 1
  /\ \A i \in InstructorRefs(G), c \in CourseRefs(G) :
       Count(G.ins[i].assigned_courses, c) <= 1

\* C13: in every Course, Student and Instructor implementation, with default
\* arguments, add_student, register_course and assign_course are idempotent
\* appends: the lists hold each object at most once after a call, and
\* repeating the call with the same argument changes nothing.
C13_IdempotentAppends ==
  NoDuplicates(mem) =>
    \A s \in StudentRefs(mem), c \in CourseRefs(mem), i \in InstructorRefs(mem) :
      LET A == Course_add_student(mem, variant, c, s, TRUE)
          R == Student_register_course(mem, variant, s, c)
          I == Instructor_assign_course(mem, variant, i, c, TRUE, TRUE)
      IN /\ NoDuplicates(A)
         /\ Course_add_student(A, variant, c, s, TRUE) = A
         /\ NoDuplicates(R)
         /\ Student_register_course(R, variant, s, c) = R
         /\ NoDuplicates(I)
         /\ Instructor_assign_course(I, variant, i, c, TRUE, TRUE) = I

\* C14: after I.assign_course(C) returns, in every Instructor implementation
\* and for every value of its flags, C.instructor is I and C is in
\* I.assigned_courses.
C14_LinkBackMandatory ==
  \A i \in InstructorRefs(mem), c \in CourseRefs(mem), unique \in BOOLEAN,
     link_back \in BOOLEAN :
    LET G == Instructor_assign_course(mem, variant, i, c, unique, link_back)
    IN /\ G.crs[c].instructor = i
       /\ Contains(G.ins[i].assigned_courses, c)

(***************************************************************************)
(* Properties of the Qt front end (SpecQt)                                 *)
(***************************************************************************)
\* some call before the k-th of the log inserted the row `key` with `op`
InsertedBefore(log, k, op, key) ==
  \E j \in 1..(k - 1) : log[j].op = op /\ log[j].a = key /\ ~log[j].raised

\* C15: overwrite_db_from_memory empties the four tables in the order
\* registrations, courses, students, instructors before any insert; then
\* every course row with a non-null instructor ID is inserted after that
\* instructor's row and every registration row after both its student row
\* and its course row.
C15_OverwriteOrder ==
  last.op = "load_json" =>
    /\ Len(last.log) >= 4
    /\ [k \in 1..4 |-> last.log[k].a] = <<"registrations", "courses", "students", "instructors">>
    /\ \A k \in 1..Len(last.log) : (last.log[k].op = "delete") <=> (k <= 4)
    /\ \A k \in 1..Len(last.log) :
         /\ (last.log[k].op = "add_course" /\ last.log[k].b # None)
              => InsertedBefore(last.log, k, "add_instructor", last.log[k].b)
         /\ last.log[k].op = "register_student"
              => /\ InsertedBefore(last.log, k, "add_student", last.log[k].a)
                 /\ InsertedBefore(last.log, k, "add_course", last.log[k].b)

C15_Witness ==
  /\ last.op = "load_json"
  /\ ~last.raised
  /\ \E k \in 1..Len(last.log) : last.log[k].op = "add_course" /\ last.log[k].b # None
  /\ \E k \in 1..Len(last.log) : last.log[k].op = "register_student"
  /\ Len(db.instructors) = 2

\* C16: if an insert made during the Qt load_json / overwrite_db_from_memory
\* sequence fails, the store afterwards holds exactly the rows it held
\* before load_json started.
C16_FailedLoadKeepsStore ==
  [][(last'.op = "load_json" /\ last'.raised) => db' = db]_vars

(***************************************************************************)
(* Properties of the connections (SpecConn)                                *)
(***************************************************************************)
\* what a call did inside get_conn is all committed or, if it raised, not
\* persisted at all
AllOrNothing ==
  /\ last'.raised => (db' = db /\ ~Contains(last'.trace, "commit"))
  /\ db' # db => Contains(last'.trace, "commit")

\* the connection is closed when control is back in the caller
ClosedOnReturn == last'.trace[Len(last'.trace)] = "close"

\* C17: every operation run inside get_conn, the two-statement operations
\* delete_student, delete_instructor and delete_course included, commits
\* all of its statements or, if a statement raises, persists nothing; in both
\* cases the connection is closed before control returns to the caller.
C17_ScopedTransaction ==
  [][AllOrNothing /\ ClosedOnReturn]_vars

\* the mutations' half of C17: the calls that write the store
C17_MutationsScoped ==
  [][last'.op \notin {"list_students", "list_instructors", "list_courses",
                      "list_course_roster", "list_student_courses"}
       => (AllOrNothing /\ ClosedOnReturn)]_vars

(***************************************************************************)
(* Properties of the list queries (SpecStore)                              *)
(***************************************************************************)
\* the table with its j-th and k-th rows exchanged: the same rows, inserted
\* in another order
Exchanged(rows, j, k) ==
  [p \in 1..Len(rows) |-> IF p = j THEN rows[k] ELSE IF p = k THEN rows[j] ELSE rows[p]]

\* the stores with the contents of DB whose rows were inserted in an order
\* that differs from DB's in two rows of one table
Reordered(DB) ==
  UNION {{[DB EXCEPT ![t] = Exchanged(DB[t], j, k)] :
            j \in 1..Len(DB[t]), k \in 1..Len(DB[t])} :
           t \in {"students", "instructors", "courses", "enrollments"}} \ {DB}

\* C18: for two store states with identical table contents, whatever the
\* order in which the rows were inserted, list_students, list_instructors,
\* list_courses, list_course_roster and list_student_courses return the same
\* sequence of rows, also when two rows share the same name.
C18_DeterministicListing ==
  \A DB2 \in Reordered(db) :
    /\ list_students(DB2, variant) = list_students(db, variant)
    /\ list_instructors(DB2, variant) = list_instructors(db, variant)
    /\ list_courses(DB2) = list_courses(db)
    /\ \A cid \in CourseIds :
         list_course_roster(DB2, variant, cid) = list_course_roster(db, variant, cid)
    /\ \A sid \in StudentIds :
         list_student_courses(DB2, variant, sid) = list_student_courses(db, variant, sid)

(***************************************************************************)
(* Properties of the backups (SpecBackup)                                  *)
(***************************************************************************)
\* C19: every backup operation (backup_db, backup_db_to_folder,
\* backup_db_global, models.db.backup_db) produces a copy equal to one
\* committed state of the store, also when a writer commits while the copy
\* is in progress.
C19_BackupIsCommittedState ==
  (backup.op # "none" /\ backup.done) => backup.copy \in backup.states

\* the backups made with Connection.backup
C19_ApiBackupIsCommittedState ==
  (backup.op # "none" /\ backup.done /\ ~backup.raw) => backup.copy \in backup.states

(***************************************************************************)
(* Properties of the record actions of the Tk front end (SpecTkRecords)    *)
(***************************************************************************)
\* an add form submitted with an ID that an object in memory already has
AddOfPresentIdRejected ==
  /\ \A sid \in TkStudentIds, name \in Names :
       find_student_by_id(mem, sid) # NoRef =>
         tk_add_student(db, mem, sid, name, 20, "x@y.z") = TkResult(FALSE, db, mem)
  /\ \A iid \in TkInstructorIds, name \in Names :
       find_instructor_by_id(mem, iid) # NoRef =>
         tk_add_instructor(db, mem, iid, name, 20, "x@y.z") = TkResult(FALSE, db, mem)
  /\ \A cid \in TkCourseIds, name \in Names :
       find_course_by_id(mem, cid) # NoRef =>
         tk_add_course(db, mem, cid, name) = TkResult(FALSE, db, mem)

\* C20: after any sequence of add, edit, delete and load_json actions of the
\* Tk front end, no two students, no two instructors and no two courses in
\* memory share an ID; and an add whose ID is already present in memory is
\* rejected and changes neither memory nor the store.
C20_UniqueIdsInMemory == UniqueIds(mem) /\ AddOfPresentIdRejected

(***************************************************************************)
(* Primary keys of the store (SpecStore)                                   *)
(***************************************************************************)
\* no two rows of a table have the same key
PrimaryKeys(DB) ==
  /\ \A j, k \in 1..Len(DB.students) : DB.students[j].sid = DB.students[k].sid => j = k
  /\ \A j, k \in 1..Len(DB.instructors) :
       DB.instructors[j].iid = DB.instructors[k].iid => j = k
  /\ \A j, k \in 1..Len(DB.courses) : DB.courses[j].cid = DB.courses[k].cid => j = k
  /\ \A j, k \in 1..Len(DB.enrollments) : DB.enrollments[j] = DB.enrollments[k] => j = k

\* an add_* call with a key that a row already has raises to its caller and
\* commits nothing (the modules that define add_*: core and models)
AddOfPresentKeyRaises ==
  variant # "root" =>
    /\ \A sid \in StudentIds, name \in Names :
         HasStudent(db, sid) =>
           add_student(db, variant, sid, name, 20, "x@y.z") = IntegrityError(db)
    /\ \A iid \in InstructorIds, name \in Names :
         HasInstructor(db, iid) =>
           add_instructor(db, variant, iid, name, 20, "x@y.z") = IntegrityError(db)
    /\ \A cid \in CourseIds, name \in Names, iid \in InstructorIds \cup {None} :
         HasCourse(db, cid) =>
           add_course(db, variant, cid, name, iid) = IntegrityError(db)

\* C21: after any sequence of store operations no two students rows share
\* sid, no two instructors rows share iid, no two courses rows share cid and
\* no two enrollment rows share (cid, sid); add_student, add_instructor or
\* add_course with an ID already present raises to the caller and leaves
\* every table unchanged.
C21_PrimaryKeys == PrimaryKeys(db) /\ AddOfPresentKeyRaises

\* an add_student call has just raised on a key that is present, and all
\* four tables hold rows
C21_Witness ==
  /\ last.op = "add_student"
  /\ last.raised
  /\ last.affected = 0
  /\ Len(db.students) >= 1
  /\ Len(db.instructors) >= 1
  /\ Len(db.courses) >= 1
  /\ Len(db.enrollments) >= 1

(***************************************************************************)
(* Synchronisation of memory and store                                     *)
(***************************************************************************)
\* C22: after every completed action of the Tk front end (add, delete,
\* register, assign, re-assign, load_json) the graph in memory has the ID
\* sets, the scalar fields and the edge sets of the graph that
\* load_all_from_db rebuilds from the current store.
C22_TkMemoryMatchesStore == SameGraph(mem, load_all_from_db(db))

\* C23: after every action of the Qt front end returns, whether it
\* succeeded or reported an error, the STUDENTS, INSTRUCTORS and COURSES
\* collections equal the graph that load_all rebuilds from the current store.
C23_QtMemoryMatchesStore == SameGraph(mem, load_all(db, "models"))

\* the same for the actions that returned without reporting an error
C23_QtMatchesAfterSuccess == ~last.raised => mem = load_all(db, "models")

(***************************************************************************)
(* Properties of the Qt reconciler (SpecQtLoad)                            *)
(***************************************************************************)
\* enrollments written in a course record only, and assignments written in
\* an instructor record only, with both IDs in the document
CourseOnlyEnrollments(D) ==
  {p \in DocCourseSide(D) \ DocStudentSide(D) :
     DocHasStudent(D, p[1]) /\ DocHasCourse(D, p[2])}

InstructorOnlyAssignments(D) ==
  {p \in DocAssignedSide(D) :
     /\ <<p[2], p[1]>> \notin DocInstructorField(D)
     /\ DocHasInstructor(D, p[1]) /\ DocHasCourse(D, p[2])}

EnrolledBothWays(G, p) ==
  LET s == stu_by_id(G, p[1])
      c == crs_by_id(G, p[2])
  IN /\ Contains(G.stu[s].registered_courses, c)
     /\ Contains(G.crs[c].enrolled_students, s)

AssignedBothWays(G, p) ==
  LET i == inst_by_id(G, p[1])
      c == crs_by_id(G, p[2])
  IN /\ G.crs[c].instructor = i
     /\ Contains(G.ins[i].assigned_courses, c)

\* C24: in the graph MainWindow.load_into_memory rebuilds, an enrollment
\* the document records only in a course record's enrolled_students, and an
\* assignment it records only in an instructor record's assigned_courses,
\* is present in both directions when both IDs resolve.
C24_QtOneSidedEdgesLinked ==
  Loaded =>
    /\ \A p \in CourseOnlyEnrollments(doc) : EnrolledBothWays(graph, p)
    /\ \A p \in InstructorOnlyAssignments(doc) : AssignedBothWays(graph, p)

\* what the Qt reconciler does link: the registered_courses of the student
\* records and the instructor field of the course records
C24_QtStudentAndCourseSidesLinked ==
  Loaded =>
    /\ \A p \in DocStudentSide(doc) :
         (DocHasStudent(doc, p[1]) /\ DocHasCourse(doc, p[2])) =>
           \E s \in StudentRefs(graph) :
             /\ graph.stu[s].student_id = p[1]
             /\ Contains(graph.stu[s].registered_courses, crs_by_id(graph, p[2]))
             /\ Contains(graph.crs[crs_by_id(graph, p[2])].enrolled_students, s)
    /\ \A p \in DocInstructorField(doc) :
         (DocHasCourse(doc, p[1]) /\ DocHasInstructor(doc, p[2])) =>
           \E c \in CourseRefs(graph) :
             /\ graph.crs[c].course_id = p[1]
             /\ graph.crs[c].instructor = inst_by_id(graph, p[2])
             /\ Contains(graph.ins[inst_by_id(graph, p[2])].assigned_courses, c)

(***************************************************************************)
(* The factories of the entity classes (SpecLoad)                          *)
(***************************************************************************)
\* C25: from_dict / create_obj_from_dict of Student, Instructor and Course
\* rebuild the scalar fields only: whatever the record's relationship
\* fields contain, the object has empty relationship collections and a
\* course has no instructor.
C25_FromDictScalarsOnly ==
  /\ \A k \in 1..Len(doc.students) :
       LET d == doc.students[k]
       IN StudentFromDict(d) =
            [name |-> d.name, age |-> d.age, email |-> d.email,
             student_id |-> d.student_id, registered_courses |-> <<>>]
  /\ \A k \in 1..Len(doc.instructors) :
       LET d == doc.instructors[k]
       IN InstructorFromDict(d) =
            [name |-> d.name, age |-> d.age, email |-> d.email,
             instructor_id |-> d.instructor_id, assigned_courses |-> <<>>]
  /\ \A k \in 1..Len(doc.courses) :
       LET d == doc.courses[k]
       IN CourseFromDict(d) =
            [course_id |-> d.course_id, course_name |-> d.course_name,
             instructor |-> NoRef, enrolled_students |-> <<>>]
  /\ Loaded =>
       /\ \A s \in DOMAIN LoadObjects(doc).stu :
            LoadObjects(doc).stu[s].registered_courses = <<>>
       /\ \A i \in DOMAIN LoadObjects(doc).ins :
            LoadObjects(doc).ins[i].assigned_courses = <<>>
       /\ \A c \in DOMAIN LoadObjects(doc).crs :
            /\ LoadObjects(doc).crs[c].enrolled_students = <<>>
            /\ LoadObjects(doc).crs[c].instructor = NoRef

\* a loaded document with a student record that registers a course and a
\* course record that names an instructor
C25_Witness ==
  /\ Loaded
  /\ \E k \in 1..Len(doc.students) : doc.students[k].registered_courses # <<>>
  /\ \E k \in 1..Len(doc.courses) : doc.courses[k].instructor # None

(***************************************************************************)
(* Order of the store write and the memory change in the Tk handlers       *)
(***************************************************************************)
\* the add forms: the ID is not in memory, so the INSERT is attempted
AddKeepsMemoryOnFailure ==
  /\ \A sid \in TkStudentIds :
       (find_student_by_id(mem, sid) = NoRef
          /\ add_student(db, "core", sid, NameOf(sid), 20, "x@y.z").raised) =>
         tk_add_student(db, mem, sid, NameOf(sid), 20, "x@y.z").mem = mem
  /\ \A iid \in TkInstructorIds :
       (find_instructor_by_id(mem, iid) = NoRef
          /\ add_instructor(db, "core", iid, NameOf(iid), 20, "x@y.z").raised) =>
         tk_add_instructor(db, mem, iid, NameOf(iid), 20, "x@y.z").mem = mem
  /\ \A cid \in TkCourseIds :
       (find_course_by_id(mem, cid) = NoRef
          /\ add_course(db, "core", cid, NameOf(cid), None).raised) =>
         tk_add_course(db, mem, cid, NameOf(cid)).mem = mem

\* register and assign: both objects are in memory and not yet linked, so
\* the store is written
LinkKeepsMemoryOnFailure ==
  /\ \A sid \in TkStudentIds, cid \in TkCourseIds :
       LET s == find_student_by_id(mem, sid)
           c == find_course_by_id(mem, cid)
       IN (/\ s # NoRef /\ c # NoRef
           /\ ~Contains(mem.stu[s].registered_courses, c)
           /\ ~Contains(mem.crs[c].enrolled_students, s)
           /\ register_student(db, "core", sid, cid).raised) =>
            register_student_to_course(db, mem, sid, cid).mem = mem
  /\ \A iid \in TkInstructorIds, cid \in TkCourseIds :
       LET inst == find_instructor_by_id(mem, iid)
           c == find_course_by_id(mem, cid)
       IN (/\ inst # NoRef /\ c # NoRef
           /\ mem.crs[c].instructor # inst
           /\ set_course_instructor(db, "core", cid, iid).raised) =>
            assign_instructor_to_course(db, mem, iid, cid).mem = mem

\* the delete handlers let the exception of a store call escape
DeleteKeepsMemoryOnFailure ==
  /\ \A sid \in TkStudentIds :
       delete_selected_student(db, mem, sid).raised =>
         delete_selected_student(db, mem, sid).mem = mem
  /\ \A iid \in TkInstructorIds :
       delete_selected_instructor(db, mem, iid).raised =>
         delete_selected_instructor(db, mem, iid).mem = mem
  /\ \A cid \in TkCourseIds :
       delete_selected_course(db, mem, cid).raised =>
         delete_selected_course(db, mem, cid).mem = mem

\* C26: in every mutating action of the Tk front end the graph in memory is
\* changed only after the store write has succeeded: when a store write of
\* the action fails, the graph in memory is the one before the action.
C26_StoreFirst ==
  AddKeepsMemoryOnFailure /\ LinkKeepsMemoryOnFailure /\ DeleteKeepsMemoryOnFailure

\* the handlers that do write the store first
C26_StoreFirstExceptAssign ==
  /\ AddKeepsMemoryOnFailure
  /\ DeleteKeepsMemoryOnFailure
  /\ \A sid \in TkStudentIds, cid \in TkCourseIds :
       register_student(db, "core", sid, cid).raised =>
         register_student_to_course(db, mem, sid, cid).mem = mem

(***************************************************************************)
(* The store rebuilt from the graph that was rebuilt from it (SpecStore,   *)
(* module models/db.py)                                                    *)
(***************************************************************************)
SameRows(DB1, DB2) ==
  \A t \in {"students", "instructors", "courses", "enrollments"} :
    /\ Range(DB1[t]) = Range(DB2[t])
    /\ Len(DB1[t]) = Len(DB2[t])

\* C27: for every store state, load_all followed by
\* overwrite_db_from_memory on the graph it built leaves every table with
\* exactly the set of rows it had.
C27_StoreGraphStore ==
  variant = "models" =>
    LET R == overwrite_db_from_memory(db, load_all(db, "models"))
    IN ~R.raised /\ SameRows(R.db, db)

\* a store with rows in every table, a course with an instructor, and rows
\* the overwrite writes back in another order
C27_Witness ==
  /\ variant = "models"
  /\ Len(db.students) >= 1
  /\ Len(db.instructors) >= 1
  /\ Len(db.enrollments) >= 1
  /\ \E k \in 1..Len(db.courses) : db.courses[k].iid # None
  /\ overwrite_db_from_memory(db, load_all(db, "models")).db # db

(***************************************************************************)
(* Reconciliation as a fixed point (SpecLoad)                              *)
(***************************************************************************)
\* C28: for every document D, the graph G = load_obj_from_json(D) encoded
\* with save_obj_into_json and loaded again has the ID sets and the edge
\* sets of G.
C28_FixedPoint ==
  phase = "reloaded" =>
    /\ ~graph2.raised
    /\ IdsOfStudents(graph2) = IdsOfStudents(graph)
    /\ IdsOfInstructors(graph2) = IdsOfInstructors(graph)
    /\ IdsOfCourses(graph2) = IdsOfCourses(graph)
    /\ EdgesOf(graph2) = EdgesOf(graph)

\* a document that records an enrollment and an assignment on one side
\* each, loaded, encoded into a different document and loaded again
C28_Witness ==
  /\ phase = "reloaded"
  /\ doc2 # doc
  /\ EdgesOf(graph).registered_courses # {}
  /\ EdgesOf(graph).instructor # {}
  /\ EdgesOf(graph2) = EdgesOf(graph)

(***************************************************************************)
(* unregister_student of the store (SpecStore, core and models/db.py)      *)
(***************************************************************************)
\* C29: unregister_student(s, c) removes exactly the enrollment row (c, s)
\* and changes no other row; where s and c exist and (c, s) is not
\* enrolled, register_student followed by unregister_student gives back
\* the same store; unregistering a pair that is not enrolled changes
\* nothing and does not raise.
C29_UnregisterExact ==
  variant # "root" =>
    \A sid \in StudentIds, cid \in CourseIds :
      LET U == unregister_student(db, variant, sid, cid)
          row == [cid |-> cid, sid |-> sid]
          R == register_student(db, variant, sid, cid)
      IN /\ ~U.raised
         /\ U.db.students = db.students
         /\ U.db.instructors = db.instructors
         /\ U.db.courses = db.courses
         /\ Range(U.db.enrollments) = Range(db.enrollments) \ {row}
         /\ Len(U.db.enrollments) =
              Len(db.enrollments) - (IF HasEnrollment(db, cid, sid) THEN 1 ELSE 0)
         /\ ~HasEnrollment(db, cid, sid) => U.db = db
         /\ (HasStudent(db, sid) /\ HasCourse(db, cid) /\ ~HasEnrollment(db, cid, sid)) =>
              /\ ~R.raised
              /\ HasEnrollment(R.db, cid, sid)
              /\ unregister_student(R.db, variant, sid, cid) = Done(db)

\* unregister_student has just removed one of two enrollment rows
C29_Witness ==
  /\ last.op = "unregister_student"
  /\ ~last.raised
  /\ last.affected = 1
  /\ Len(db.enrollments) >= 1

(***************************************************************************)
(* Closure of the reconciled graph (SpecLoad)                              *)
(***************************************************************************)
\* the objects one relationship away from an element of the returned lists
\* are elements of the returned lists (so every reachable object is)
Closed(G) ==
  /\ \A s \in StudentRefs(G) : Range(G.stu[s].registered_courses) \subseteq CourseRefs(G)
  /\ \A i \in InstructorRefs(G) : Range(G.ins[i].assigned_courses) \subseteq CourseRefs(G)
  /\ \A c \in CourseRefs(G) :
       /\ Range(G.crs[c].enrolled_students) \subseteq StudentRefs(G)
       /\ G.crs[c].instructor # NoRef => G.crs[c].instructor \in InstructorRefs(G)

DocRepeatsId(D) ==
  \/ \E j, k \in 1..Len(D.students) :
       j < k /\ D.students[j].student_id = D.students[k].student_id
  \/ \E j, k \in 1..Len(D.instructors) :
       j < k /\ D.instructors[j].instructor_id = D.instructors[k].instructor_id
  \/ \E j, k \in 1..Len(D.courses) :
       j < k /\ D.courses[j].course_id = D.courses[k].course_id

\* C30: every object reachable through course.instructor,
\* course.enrolled_students, student.registered_courses or
\* instructor.assigned_courses of the graph load_obj_from_json returns is an
\* element of the returned students, instructors or courses list, also
\* when the document repeats an ID within a list.
C30_Closure == Loaded => (~graph.raised /\ Closed(graph))

\* a loaded document that repeats a course ID, with an enrollment in that course
C30_Witness ==
  /\ Loaded
  /\ \E j, k \in 1..Len(doc.courses) :
       /\ j < k
       /\ doc.courses[j].course_id = doc.courses[k].course_id
       /\ \E p \in EdgesOf(graph).registered_courses : p[2] = doc.courses[j].course_id
  /\ Closed(graph)

====
